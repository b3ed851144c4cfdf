------------------------ MODULE PipelineQueueProofs ------------------------
(***************************************************************************)
(* More theorems of Pipeline: about the requests that are queued on the    *)
(* connections, where a request is, what stands before it and behind it,   *)
(* and that none is forgotten; and about what the clients see, that the    *)
(* handler implements ProxyService and that no wakeup is lost.             *)
(*                                                                         *)
(* Most of them rest on one lemma, StepKinds: whatever the handler does,   *)
(* it changes the queues in one of five ways.  To the clients, a step      *)
(* reads a request (Ask), answers one (Settle), writes (Show) or is not    *)
(* seen.                                                                   *)
(***************************************************************************)
EXTENDS PipelineProofs

\* The requests on connection x, oldest first, and those on all connections.
QueueOf(x) == x.sent \o x.send

Queues == [s \in Server |-> Queue(s)]

\* The oldest request on connection s leaves it; requests q are added to it.
Pop(Q, s) == [Q EXCEPT ![s] = Tail(@)]

Put(Q, s, q) == [Q EXCEPT ![s] = @ \o q]

\* The queues, when a connection may just have been opened.
Reopened(Q) == {Q} \cup {Put(Q, s, Handshake) : s \in {t \in Server : Q[t] = <<>>}}

\* Nothing of client c changes that a request or an answer depends on.
SeenSame(c) ==
    /\ cc'[c].fd = cc[c].fd
    /\ cc'[c].good = cc[c].good
    /\ cc'[c].requests = cc[c].requests
    /\ cc'[c].parsed = cc[c].parsed

AllSeenSame == out' = out /\ \A c \in Client : SeenSame(c)

\* A step moves no request.
Quiet ==
    /\ AllSeenSame
    /\ Queues' \in Reopened(Queues)
    /\ UNCHANGED <<res, redirects, delivered>>

\* A request was read from client c.
Asks(c) ==
    /\ CanRead(c)
    /\ out' = out
    /\ \A d \in Client \ {c} : SeenSame(d)
    /\ cc'[c].fd = cc[c].fd /\ cc'[c].good = cc[c].good
    /\ cc'[c].requests = Append(cc[c].requests, NextReq(c))
    /\ cc'[c].parsed = cc[c].parsed + 1
    /\ NextReq(c) \in Req
    /\ UNCHANGED redirects

AnsweredWith(r, a) ==
    /\ a \in Answer /\ a.of = r
    /\ res' = [res EXCEPT ![r] = a]

\* It goes no further, and if it was to be passed on it has an answer.
AsksOnly(c) ==
    /\ Asks(c)
    /\ Queues' \in Reopened(Queues)
    /\ \/ UNCHANGED <<res, delivered>>
       \/ /\ \E a \in Answer : AnsweredWith(NextReq(c), a)
          /\ delivered' \in {delivered, [delivered EXCEPT ![NextReq(c)] = TRUE]}

\* It is queued on connection s.
Forwards(c, s) ==
    /\ Asks(c)
    /\ \E Q \in Reopened(Queues) : Queues' = Put(Q, s, <<NextReq(c)>>)
    /\ UNCHANGED res
    /\ delivered' = [delivered EXCEPT ![NextReq(c)] = TRUE]

\* A cluster sent request q on.
Redirected(q) == Cluster /\ redirects' = [redirects EXCEPT ![q] = @ + 1]

\* The oldest request of connection s leaves the queues: it is answered or
\* dropped.
Takes(s) ==
    /\ AllSeenSame
    /\ Queues[s] # <<>>
    /\ Queues' \in Reopened(Pop(Queues, s))
    /\ LET q == Head(Queues[s]) IN
         \/ /\ q \in Req /\ Live(q[1])
            /\ \E a \in Answer : AnsweredWith(q, a)
            /\ UNCHANGED redirects \/ Redirected(q)
         \/ /\ q \in Inner \/ ~Live(q[1])
            /\ UNCHANGED <<res, redirects>>
         \/ /\ q \in Req
            /\ UNCHANGED res /\ Redirected(q)
    /\ UNCHANGED delivered

\* The oldest request of connection s is queued again, on connection t.
Redirects(s, t) ==
    /\ AllSeenSame
    /\ Queues[s] # <<>>
    /\ Head(Queues[s]) \in Req
    /\ LET q == Head(Queues[s]) IN
         /\ \E Q \in Reopened(Pop(Queues, s)), p \in {<<q>>, <<Asking, q>>} :
              Queues' = Put(Q, t, p)
         /\ Redirected(q)
    /\ UNCHANGED <<res, delivered>>

-----------------------------------------------------------------------------
(* What the operations on a connection do to its queue.                    *)

\* A connection has a sequence of requests; the front of sent is its head.
LEMMA QueueOfConn ==
    ASSUME NEW x \in ConnectConn
    PROVE  /\ x.sent \in Seq(Item) /\ x.send \in Seq(Item)
           /\ QueueOf(x) \in Seq(Item)
BY ConcatProperties DEF ConnectConn, Item, QueueOf

\* Sending requests adds them at the end of the queue.
LEMMA SendQueue ==
    ASSUME NEW x \in ConnectConn, NEW q \in Seq(Item)
    PROVE  QueueOf(Send(x, q)) = QueueOf(x) \o q
<1>1. x.send \o q \in Seq(Req \cup Inner)
  BY QueueOfConn, ConcatProperties DEF Item
<1>2. Send(x, q).send = x.send \o q /\ Send(x, q).sent = x.sent
  BY <1>1 DEF Send, AddPost, ConnectConn
<1>3. x.sent \o (x.send \o q) = (x.sent \o x.send) \o q
  <2> DEFINE a == x.sent
             b == x.send
  <2>1. a \in Seq(Item) /\ b \in Seq(Item)
    BY QueueOfConn
  <2> HIDE DEF a, b
  <2>2. a \o (b \o q) = (a \o b) \o q
    BY <2>1, ConcatAssociative
  <2> QED BY <2>2 DEF a, b
<1> QED BY <1>2, <1>3 DEF QueueOf

\* A write moves requests from send to sent, and changes nothing of the queue.
LEMMA FlushedQueue ==
    ASSUME NEW x \in ConnectConn, NEW k \in 0..Len(x.send)
    PROVE  QueueOf(Flushed(x, k)) = QueueOf(x)
<1> DEFINE a == SubSeq(x.send, 1, k)
           b == SubSeq(x.send, k + 1, Len(x.send))
           more == k < Len(x.send)
           moved == x.sent \o a
<1>1. x.sent \in Seq(Item) /\ x.send \in Seq(Item)
  BY QueueOfConn
<1>2. Len(x.send) \in Nat /\ k \in Nat /\ k <= Len(x.send)
  BY <1>1, LenProperties
<1>3. a \in Seq(Item) /\ b \in Seq(Item)
  <2>1. \A i \in 1..Len(x.send) : x.send[i] \in Item
    BY <1>1, ElementOfSeq
  <2>2. \A i \in 1..k : x.send[i] \in Item
    BY <1>2, <2>1
  <2>3. \A i \in k + 1..Len(x.send) : x.send[i] \in Item
    BY <1>2, <2>1
  <2> QED BY <1>2, <2>2, <2>3, SubSeqProperties
<1>4. a \o b = x.send
  <2>1. CASE Len(x.send) = 0
    <3>1. x.send = <<>>
      BY <1>1, <2>1, EmptySeq
    <3>2. a = <<>> /\ b = <<>>
      BY <1>2, <2>1, SubSeqEmpty
    <3> QED BY <3>1, <3>2, <1>1, ConcatEmptySeq
  <2>2. CASE Len(x.send) # 0
    <3>1. 1 \in 1..Len(x.send) + 1 /\ k \in 1 - 1..Len(x.send) /\ Len(x.send) \in k..Len(x.send)
      BY <1>2, <2>2
    <3>2. a \o b = SubSeq(x.send, 1, Len(x.send))
      BY <1>1, <3>1, ConcatAdjacentSubSeq
    <3> QED BY <1>1, <3>2, SubSeqFull
  <2> QED BY <2>1, <2>2
<1>5. moved \in Seq(Item) /\ more \in BOOLEAN
  BY <1>1, <1>3, ConcatProperties
<1>6. Flushed(x, k) = [x EXCEPT !.send = b, !.sent = moved, !.writable = more, !.wait = TRUE]
  BY Zenon DEF Flushed
<1> HIDE DEF a, b, more
<1>7. Flushed(x, k).send = b /\ Flushed(x, k).sent = x.sent \o a
  <2> HIDE DEF moved
  <2>1. Flushed(x, k).send = b /\ Flushed(x, k).sent = moved
    BY <1>6 DEF ConnectConn
  <2> QED BY <2>1 DEF moved
<1>8. (x.sent \o a) \o b = x.sent \o (a \o b)
  <2> DEFINE d == x.sent
  <2>1. d \in Seq(Item)
    BY <1>1
  <2> HIDE DEF d
  <2>2. (d \o a) \o b = d \o (a \o b)
    BY <1>3, <2>1, ConcatAssociative
  <2> QED BY <2>2 DEF d
<1> QED BY <1>4, <1>7, <1>8 DEF QueueOf

\* A connection that is opened gets the handshake.
LEMMA OpenedQueue ==
    ASSUME NEW x \in ConnectConn, NEW y \in Opened(x)
    PROVE  QueueOf(y) = QueueOf(x) \/ QueueOf(y) = QueueOf(x) \o Handshake
<1>1. Handshake \in Seq(Item)
  <2>1. {Setup, PingServ} \subseteq Item
    BY DEF Item, Inner
  <2> QED BY <2>1, PipelineAssumption, SeqMonotonic
<1>2. CASE y = [x EXCEPT !.link = "closed", !.status = "None", !.writable = FALSE]
  BY <1>2 DEF ConnectConn, QueueOf
<1>3. ASSUME NEW l \in {"connecting", "connected"},
             y = Send([x EXCEPT !.link = l, !.status = "Normal", !.writable = TRUE],
                      Handshake)
      PROVE  QueueOf(y) = QueueOf(x) \o Handshake
  <2> DEFINE z == [x EXCEPT !.link = l, !.status = "Normal", !.writable = TRUE]
  <2>1. z \in ConnectConn /\ QueueOf(z) = QueueOf(x)
    BY DEF ConnectConn, QueueOf
  <2> HIDE DEF z
  <2>2. y = Send(z, Handshake)
    BY <1>3 DEF z
  <2> QED BY <2>1, <2>2, <1>1, SendQueue
<1> QED BY <1>2, <1>3 DEF Opened

\* The queue x, or the handshake when x is empty.
MayOpen(q) == {q} \cup (IF q = <<>> THEN {q \o Handshake} ELSE {})

\* A connection that is got for a request may have been opened.
LEMMA SharedQueue ==
    ASSUME NEW x \in ConnectConn, NEW failed \in BOOLEAN,
           NEW g \in GetShareConnection(x, failed),
           ~Open(x) => QueueOf(x) = <<>>
    PROVE  QueueOf(g.conn) \in MayOpen(QueueOf(x))
<1>1. CASE Open(x) \/ (x.link = "closed" /\ failed)
  <2>1. g.conn = x
    BY <1>1 DEF GetShareConnection
  <2> QED BY <2>1 DEF MayOpen
<1>2. CASE ~Open(x) /\ ~(x.link = "closed" /\ failed)
  <2>1. PICK y \in Opened(x) : g = [conn |-> y, got |-> Open(y) /\ ~failed]
    BY <1>2 DEF GetShareConnection
  <2>2. g.conn = y
    BY <2>1
  <2> QED BY <2>2, <1>2, OpenedQueue DEF MayOpen
<1> QED BY <1>1, <1>2

\* When the front of sent leaves it, the queue loses its head.
LEMMA TailQueue ==
    ASSUME NEW x \in ConnectConn, x.sent # <<>>
    PROVE  /\ [x EXCEPT !.sent = Tail(@)] \in ConnectConn
           /\ QueueOf([x EXCEPT !.sent = Tail(@)]) = Tail(QueueOf(x))
           /\ QueueOf(x) # <<>>
           /\ Head(QueueOf(x)) = Head(x.sent)
<1>1. x.sent \in Seq(Item) /\ x.send \in Seq(Item) /\ QueueOf(x) \in Seq(Item)
  BY QueueOfConn
<1> DEFINE m == Len(x.sent)
           n == Len(x.send)
           Q == QueueOf(x)
           T == Tail(x.sent)
<1>2. m \in Nat \ {0} /\ n \in Nat
  BY <1>1, LenProperties, EmptySeq
<1>3. Len(Q) = m + n /\ \A i \in 1..m + n : Q[i] = IF i <= m THEN x.sent[i] ELSE x.send[i - m]
  BY <1>1, ConcatProperties DEF QueueOf
<1>4. /\ T \in Seq(Item) /\ Len(T) = m - 1
      /\ \A i \in 1..m - 1 : T[i] = x.sent[i + 1]
  BY <1>1, HeadTailProperties
<1>5. Q # <<>>
  <2> HIDE DEF Q, m, n
  <2>1. Len(Q) # 0
    BY <1>2, <1>3
  <2> QED BY <2>1, EmptySeq
<1>6. Head(Q) = Head(x.sent)
  <2>1. Head(Q) = Q[1] /\ Head(x.sent) = x.sent[1]
    BY <1>1
  <2> HIDE DEF Q, m, n
  <2> QED BY <2>1, <1>2, <1>3
<1>7. /\ T \o x.send \in Seq(Item)
      /\ Len(T \o x.send) = (m - 1) + n
      /\ \A i \in 1..(m - 1) + n :
           (T \o x.send)[i] = IF i <= m - 1 THEN T[i] ELSE x.send[i - (m - 1)]
  <2> HIDE DEF T
  <2>1. /\ T \o x.send \in Seq(Item)
        /\ Len(T \o x.send) = Len(T) + n
        /\ \A i \in 1..Len(T) + n :
             (T \o x.send)[i] = IF i <= Len(T) THEN T[i] ELSE x.send[i - Len(T)]
    BY <1>1, <1>4, ConcatProperties
  <2> QED BY <2>1, <1>4
<1>8. /\ Tail(Q) \in Seq(Item) /\ Len(Tail(Q)) = (m - 1) + n
      /\ \A i \in 1..(m - 1) + n : Tail(Q)[i] = Q[i + 1]
  <2>1. /\ Tail(Q) \in Seq(Item) /\ Len(Tail(Q)) = Len(Q) - 1
        /\ \A i \in 1..Len(Tail(Q)) : Tail(Q)[i] = Q[i + 1]
    BY <1>1, <1>5, HeadTailProperties
  <2> HIDE DEF Q, m, n
  <2> QED BY <2>1, <1>2, <1>3
<1>9. T \o x.send = Tail(Q)
  <2>1. ASSUME NEW i \in 1..(m - 1) + n
        PROVE  (T \o x.send)[i] = Tail(Q)[i]
    <3> HIDE DEF T, Q, m, n
    <3>1. CASE i <= m - 1
      <4>1. i + 1 \in 1..m + n /\ i + 1 <= m /\ i \in 1..m - 1
        BY <1>2, <3>1
      <4> QED BY <4>1, <1>2, <1>3, <1>4, <1>7, <1>8, <3>1
    <3>2. CASE ~(i <= m - 1)
      <4>1. i + 1 \in 1..m + n /\ ~(i + 1 <= m) /\ (i + 1) - m = i - (m - 1)
        BY <1>2, <3>2
      <4> QED BY <4>1, <1>2, <1>3, <1>7, <1>8, <3>2
    <3> QED BY <3>1, <3>2
  <2> HIDE DEF T, Q, m, n
  <2> QED BY <1>7, <1>8, <2>1, SeqEqual
<1>10. /\ [x EXCEPT !.sent = T] \in ConnectConn
       /\ [x EXCEPT !.sent = T].sent = T
       /\ [x EXCEPT !.sent = T].send = x.send
  <2> HIDE DEF T
  <2> QED BY <1>4 DEF ConnectConn, Item
<1>11. QueueOf([x EXCEPT !.sent = T]) = T \o x.send
  <2> HIDE DEF T
  <2> QED BY <1>10 DEF QueueOf
<1> QED BY <1>5, <1>6, <1>9, <1>10, <1>11

\* The queues of the connections, one by one.
LEMMA QueuesAre ==
    ASSUME TypeOK
    PROVE  /\ Queues \in [Server -> Seq(Item)]
           /\ \A s \in Server : Queues[s] = QueueOf(sc[s])
<1>1. \A s \in Server : Queue(s) = QueueOf(sc[s]) /\ sc[s] \in ConnectConn
  BY DEF Queue, QueueOf, TypeOK
<1> QED BY <1>1, QueueOfConn DEF Queues

\* A connection that is not open has an empty queue.
LEMMA ClosedQueue ==
    ASSUME LinkInv, NEW s \in Server, ~Open(sc[s])
    PROVE  QueueOf(sc[s]) = <<>>
BY ConcatEmptySeq, EmptySeq DEF LinkInv, Linked, QueueOf

\* When one connection changes, one queue does.
LEMMA OneQueue ==
    ASSUME TypeOK, NEW s \in Server, NEW y, sc' = [sc EXCEPT ![s] = y]
    PROVE  Queues' = [Queues EXCEPT ![s] = QueueOf(y)]
<1>1. \A u \in Server : Queue(u)' = IF u = s THEN QueueOf(y) ELSE Queue(u)
  BY DEF TypeOK, Queue, QueueOf
<1> QED BY <1>1 DEF Queues

\* Any number of connections may change in what the queues do not depend on.
LEMMA SameQueues ==
    ASSUME \A u \in Server : QueueOf(sc'[u]) = QueueOf(sc[u])
    PROVE  Queues' \in Reopened(Queues)
<1>1. \A u \in Server : Queue(u)' = Queue(u)
  BY DEF Queue, QueueOf
<1> QED BY <1>1 DEF Queues, Reopened

\* A queue that may have been opened.
LEMMA MayOpenQueues ==
    ASSUME NEW Q \in [Server -> Seq(Item)], NEW s \in Server, NEW q \in MayOpen(Q[s])
    PROVE  [Q EXCEPT ![s] = q] \in Reopened(Q)
<1>1. CASE q = Q[s]
  <2>1. [Q EXCEPT ![s] = q] = Q
    BY <1>1
  <2> QED BY <2>1 DEF Reopened
<1>2. CASE q # Q[s]
  <2>1. Q[s] = <<>> /\ q = Q[s] \o Handshake
    BY <1>2 DEF MayOpen
  <2>2. [Q EXCEPT ![s] = q] = Put(Q, s, Handshake)
    BY <2>1 DEF Put
  <2> QED BY <2>1, <2>2 DEF Reopened
<1> QED BY <1>1, <1>2

-----------------------------------------------------------------------------
(* The five ways in which a step changes the queues.                       *)

\* The clients keep what the queues depend on, when at most the post events of
\* client c change.
LEMMA SeenSameButPost ==
    ASSUME TypeOK, NEW c \in Client, NEW y, cc' = [cc EXCEPT ![c] = y],
           y.fd = cc[c].fd, y.good = cc[c].good, y.requests = cc[c].requests,
           y.parsed = cc[c].parsed
    PROVE  \A d \in Client : SeenSame(d)
BY DEF TypeOK, SeenSame

\* Answering a request of a client changes nothing else of the clients.
LEMMA SeenSameAnswered ==
    ASSUME TypeOK, NEW r \in Req, NEW a \in Answer, a.of = r,
           SetResponse(cc[r[1]], r, a)
    PROVE  AnsweredWith(r, a) /\ \A d \in Client : SeenSame(d)
<1>1. r[1] \in Client /\ cc[r[1]] \in AcceptConn
  BY DEF Req, TypeOK
<1> QED BY <1>1, SetResponseClient DEF AnsweredWith, SeenSame

\* A request is read from client c and has no answer yet.
LEMMA AsksUnanswered ==
    ASSUME TypeOK, NEW c \in Client, CanRead(c), cc' = [cc EXCEPT ![c] = Parsed(c)],
           UNCHANGED <<redirects, out>>
    PROVE  Asks(c)
<1>1. Parsed(c).good = cc[c].good
  <2>1. cc[c] \in AcceptConn
    BY DEF TypeOK
  <2> QED BY <2>1 DEF Parsed, AcceptConn
<1> QED BY <1>1, ParsedClient DEF Asks, TypeOK, SeenSame

\* A request is read from client c and answered by the proxy.
LEMMA AsksAnswered ==
    ASSUME TypeOK, NEW c \in Client, CanRead(c), NEW x \in AcceptConn,
           x.fd = cc[c].fd, x.good = cc[c].good, x.parsed = cc[c].parsed + 1,
           x.requests = Append(cc[c].requests, NextReq(c)),
           SetResponse(x, NextReq(c), [kind |-> "proxy", of |-> NextReq(c)]),
           UNCHANGED <<redirects, out>>
    PROVE  Asks(c) /\ \E a \in Answer : AnsweredWith(NextReq(c), a)
<1> DEFINE r == NextReq(c)
           a == [kind |-> "proxy", of |-> r]
<1>1. r \in Req /\ r[1] = c /\ a \in Answer /\ a.of = r
  BY ParsedClient, ProxyAnswer DEF NextReq
<1> HIDE DEF a
<1>2. SetResponse(x, r, a)
  BY DEF a
<1> HIDE DEF r
<1>3. /\ res' = [res EXCEPT ![r] = a]
      /\ \A d \in Client \ {c} : cc'[d] = cc[d]
      /\ cc'[c].fd = x.fd
      /\ cc'[c].good = x.good
      /\ cc'[c].requests = x.requests
      /\ cc'[c].parsed = x.parsed
  BY <1>1, <1>2, SetResponseClient
<1>4. Asks(c)
  BY <1>1, <1>3 DEF Asks, SeenSame, r
<1> QED BY <1>1, <1>3, <1>4 DEF AnsweredWith, r

\* The post events of a connection are not part of its queue.
LEMMA AddPostQueue ==
    ASSUME NEW x \in ConnectConn, NEW e \in Event
    PROVE  QueueOf(AddPost(x, e)) = QueueOf(x)
BY AddPostConn DEF QueueOf

\* A connection whose queue does not change.
LEMMA OneSameQueue ==
    ASSUME TypeOK, NEW s \in Server, NEW y, sc' = [sc EXCEPT ![s] = y],
           QueueOf(y) = QueueOf(sc[s])
    PROVE  Queues' \in Reopened(Queues)
BY SameQueues DEF TypeOK

\* What a read from a client does.
LEMMA ReadKinds ==
    ASSUME LinkInv, NEW c \in Client,
           \/ ReadIgnored(c)
           \/ \E quit \in BOOLEAN : ReadDirect(c, quit)
           \/ ReadInvalid(c)
           \/ \E s \in Server : ReadForward(c, s)
    PROVE  AsksOnly(c) \/ \E s \in Server : Forwards(c, s)
<1>0. TypeOK /\ cc[c] \in AcceptConn
  BY DEF LinkInv, TypeOK
<1>1. Queues \in Reopened(Queues) /\ (UNCHANGED sc => Queues' \in Reopened(Queues))
  <2>1. UNCHANGED sc => Queues' = Queues
    BY DEF Queues, Queue
  <2> QED BY <2>1 DEF Reopened
<1>2. CanRead(c) => /\ Parsed(c) \in AcceptConn
                    /\ Parsed(c).fd = cc[c].fd
                    /\ Parsed(c).good = cc[c].good
                    /\ Parsed(c).parsed = cc[c].parsed + 1
                    /\ Parsed(c).requests = Append(cc[c].requests, NextReq(c))
                    /\ NextReq(c) \in Req
  BY <1>0, ParsedClient DEF Parsed, AcceptConn
<1>3. CASE ReadIgnored(c)
  <2>1. Asks(c) /\ UNCHANGED <<sc, res, delivered>>
    BY <1>0, <1>3, AsksUnanswered DEF ReadIgnored
  <2> QED BY <1>1, <2>1 DEF AsksOnly
<1>4. ASSUME NEW quit \in BOOLEAN, ReadDirect(c, quit)
      PROVE  AsksOnly(c)
  <2> DEFINE x == [Parsed(c) EXCEPT !.closeASAP = quit]
  <2>1. /\ CanRead(c) /\ UNCHANGED <<sc, redirects, out>>
        /\ delivered' = [delivered EXCEPT ![NextReq(c)] = TRUE]
        /\ SetResponse(x, NextReq(c), [kind |-> "proxy", of |-> NextReq(c)])
    BY <1>4 DEF ReadDirect
  <2>2. x \in AcceptConn /\ x.fd = cc[c].fd /\ x.good = cc[c].good
          /\ x.parsed = cc[c].parsed + 1
          /\ x.requests = Append(cc[c].requests, NextReq(c))
    BY <1>2, <2>1 DEF AcceptConn
  <2> HIDE DEF x
  <2>3. Asks(c) /\ \E a \in Answer : AnsweredWith(NextReq(c), a)
    BY <1>0, <2>1, <2>2, AsksAnswered
  <2> QED BY <1>1, <2>1, <2>3 DEF AsksOnly
<1>5. CASE ReadInvalid(c)
  <2>1. /\ CanRead(c) /\ UNCHANGED <<sc, delivered, redirects, out>>
        /\ SetResponse(Parsed(c), NextReq(c), [kind |-> "proxy", of |-> NextReq(c)])
    BY <1>5 DEF ReadInvalid
  <2>2. Asks(c) /\ \E a \in Answer : AnsweredWith(NextReq(c), a)
    BY <1>0, <1>2, <2>1, AsksAnswered
  <2> QED BY <1>1, <2>1, <2>2 DEF AsksOnly
<1>6. ASSUME NEW s \in Server, ReadForward(c, s)
      PROVE  AsksOnly(c) \/ Forwards(c, s)
  <2> DEFINE r == NextReq(c)
  <2>1. CanRead(c) /\ UNCHANGED <<redirects, out>>
          /\ delivered' = [delivered EXCEPT ![r] = TRUE]
    BY <1>6 DEF ReadForward
  <2>2. PICK g \in GetShareConnection(sc[s], fail[s]) :
              \/ /\ g.got /\ g.conn.status = "Normal"
                 /\ sc' = [sc EXCEPT ![s] = Send(g.conn, <<r>>)]
                 /\ cc' = [cc EXCEPT ![c] = Parsed(c)]
                 /\ UNCHANGED res
              \/ /\ ~(g.got /\ g.conn.status = "Normal")
                 /\ sc' = [sc EXCEPT ![s] = g.conn]
                 /\ SetResponse(Parsed(c), r, [kind |-> "proxy", of |-> r])
    BY <1>6 DEF ReadForward
  <2>3. sc[s] \in ConnectConn /\ fail[s] \in BOOLEAN
    BY <1>0 DEF TypeOK
  <2>4. g.conn \in ConnectConn /\ QueueOf(g.conn) \in MayOpen(QueueOf(sc[s]))
    BY <2>3, SharedConn, SharedQueue, ClosedQueue
  <2> DEFINE Q == [Queues EXCEPT ![s] = QueueOf(g.conn)]
  <2>5. Queues \in [Server -> Seq(Item)] /\ Queues[s] = QueueOf(sc[s])
    BY <1>0, QueuesAre
  <2>6. Q \in Reopened(Queues)
    BY <2>4, <2>5, MayOpenQueues
  <2>7. CASE sc' = [sc EXCEPT ![s] = Send(g.conn, <<r>>)]
             /\ cc' = [cc EXCEPT ![c] = Parsed(c)] /\ UNCHANGED res
    <3>1. <<r>> \in Seq(Item)
      BY <1>2, <2>1 DEF Item
    <3>2. Queues' = [Queues EXCEPT ![s] = QueueOf(g.conn) \o <<r>>]
      BY <1>0, <2>4, <2>7, <3>1, OneQueue, SendQueue
    <3>3. Queues' = Put(Q, s, <<r>>)
      BY <2>5, <3>2 DEF Put
    <3>4. Asks(c)
      BY <1>0, <2>1, <2>7, AsksUnanswered
    <3> QED BY <2>1, <2>6, <2>7, <3>3, <3>4 DEF Forwards
  <2>8. CASE sc' = [sc EXCEPT ![s] = g.conn]
             /\ SetResponse(Parsed(c), r, [kind |-> "proxy", of |-> r])
    <3>1. Queues' = Q
      BY <1>0, <2>8, OneQueue
    <3>2. Asks(c) /\ \E a \in Answer : AnsweredWith(NextReq(c), a)
      BY <1>0, <1>2, <2>1, <2>8, AsksAnswered
    <3> QED BY <2>1, <2>6, <3>1, <3>2 DEF AsksOnly
  <2> QED BY <2>2, <2>7, <2>8
<1> QED BY <1>3, <1>4, <1>5, <1>6

\* The front of sent is the head of the queue; reading its response takes it
\* from the queue.
LEMMA ReplyPops ==
    ASSUME LinkInv, NEW s \in Server, CanReadReply(s)
    PROVE  LET x == [sc[s] EXCEPT !.sent = Tail(@)] IN
             /\ x \in ConnectConn
             /\ QueueOf(x) = Tail(Queues[s])
             /\ x.link = sc[s].link
             /\ Queues[s] # <<>>
             /\ Head(Queues[s]) = Head(sc[s].sent)
             /\ Head(Queues[s]) \in Item
             /\ Pop(Queues, s) \in [Server -> Seq(Item)]
<1>1. sc[s] \in ConnectConn /\ sc[s].sent # <<>>
  BY DEF LinkInv, TypeOK, CanReadReply
<1>2. Queues[s] = QueueOf(sc[s]) /\ Queues \in [Server -> Seq(Item)]
  BY QueuesAre DEF LinkInv
<1>3. Tail(Queues[s]) \in Seq(Item)
  <2>1. QueueOf([sc[s] EXCEPT !.sent = Tail(@)]) \in Seq(Item)
    BY <1>1, TailQueue, QueueOfConn
  <2> QED BY <1>1, <1>2, <2>1, TailQueue
<1>4. Pop(Queues, s) \in [Server -> Seq(Item)]
  BY <1>2, <1>3 DEF Pop
<1>5. [sc[s] EXCEPT !.sent = Tail(@)].link = sc[s].link
  BY <1>1 DEF ConnectConn
<1> QED BY <1>1, <1>2, <1>4, <1>5, TailQueue, ReplyMatches

\* What reading a response that is not a redirection does.
LEMMA ReplyKinds ==
    ASSUME LinkInv, NEW s \in Server,
           \/ \E ok \in BOOLEAN : ReadInnerReply(s, ok)
           \/ ReadLateReply(s)
           \/ ReadReply(s)
    PROVE  Takes(s)
<1> DEFINE x == [sc[s] EXCEPT !.sent = Tail(@)]
           q == Head(sc[s].sent)
<1>0. TypeOK
  BY DEF LinkInv
<1>1. CanReadReply(s) /\ UNCHANGED <<delivered, redirects, out>>
  BY DEF ReadInnerReply, ReadLateReply, ReadReply
<1>2. /\ x \in ConnectConn /\ QueueOf(x) = Tail(Queues[s])
      /\ Queues[s] # <<>> /\ Head(Queues[s]) = q
  BY <1>1, ReplyPops
<1> HIDE DEF x, q
<1>3. ASSUME NEW y, sc' = [sc EXCEPT ![s] = y], QueueOf(y) = QueueOf(x)
      PROVE  Queues' \in Reopened(Pop(Queues, s))
  <2>1. Queues' = [Queues EXCEPT ![s] = Tail(Queues[s])]
    BY <1>0, <1>2, <1>3, OneQueue
  <2> QED BY <2>1 DEF Pop, Reopened
<1>4. ASSUME NEW ok \in BOOLEAN, ReadInnerReply(s, ok)
      PROVE  Takes(s)
  <2>1. q \in Inner /\ UNCHANGED <<cc, res>>
          /\ sc' = [sc EXCEPT ![s] = IF q = Setup /\ ~ok
                                     THEN AddPost([x EXCEPT !.status = "LogicError"], "Error")
                                     ELSE x]
    BY <1>4 DEF ReadInnerReply, x, q
  <2> DEFINE z == [x EXCEPT !.status = "LogicError"]
  <2>2. z \in ConnectConn /\ QueueOf(z) = QueueOf(x)
    BY <1>2 DEF ConnectConn, QueueOf
  <2> HIDE DEF z
  <2>3. QueueOf(AddPost(z, "Error")) = QueueOf(x)
    BY <2>2, AddPostQueue DEF Event
  <2>4. sc' = [sc EXCEPT ![s] = AddPost(z, "Error")] \/ sc' = [sc EXCEPT ![s] = x]
    BY <2>1 DEF z
  <2>5. Queues' \in Reopened(Pop(Queues, s))
    BY <1>3, <2>3, <2>4
  <2>6. AllSeenSame
    BY <1>1, <2>1 DEF AllSeenSame, SeenSame
  <2> QED BY <1>1, <1>2, <2>1, <2>5, <2>6 DEF Takes
<1>5. CASE ReadLateReply(s)
  <2>1. ~Live(q[1]) /\ UNCHANGED <<cc, res>> /\ sc' = [sc EXCEPT ![s] = x]
    BY <1>0, <1>5 DEF ReadLateReply, x, q, TypeOK
  <2>2. AllSeenSame
    BY <1>1, <2>1 DEF AllSeenSame, SeenSame
  <2>3. Queues' \in Reopened(Pop(Queues, s))
    BY <1>3, <2>1
  <2> QED BY <1>1, <1>2, <2>1, <2>2, <2>3 DEF Takes
<1>6. CASE ReadReply(s)
  <2> DEFINE a == [kind |-> "data", of |-> Head(wire[s])]
  <2>1. q \in Req /\ Live(q[1]) /\ SetResponse(cc[q[1]], q, a)
          /\ sc' = [sc EXCEPT ![s] = x]
    BY <1>0, <1>6 DEF ReadReply, x, q, TypeOK
  <2>2. Head(wire[s]) = q
    BY <1>1, ReplyMatches DEF q
  <2>3. a \in Answer /\ a.of = q
    BY <2>1, <2>2 DEF Answer
  <2> HIDE DEF a
  <2>4. AnsweredWith(q, a) /\ AllSeenSame
    BY <1>0, <1>1, <2>1, <2>3, SeenSameAnswered DEF AllSeenSame
  <2>5. Queues' \in Reopened(Pop(Queues, s))
    BY <1>3, <2>1
  <2> QED BY <1>1, <1>2, <2>1, <2>3, <2>4, <2>5 DEF Takes
<1> QED BY <1>4, <1>5, <1>6

\* What reading a redirection does.
LEMMA RedirectionKinds ==
    ASSUME LinkInv, NEW s \in Server, NEW kind \in {"moved", "ask"}, NEW t \in Server,
           ReadRedirection(s, kind, t)
    PROVE  Takes(s) \/ Redirects(s, t)
<1> DEFINE x == [sc[s] EXCEPT !.sent = Tail(@)]
           X == [sc EXCEPT ![s] = x]
           q == Head(sc[s].sent)
           a == [kind |-> kind, of |-> Head(wire[s]), to |-> t]
           P == Pop(Queues, s)
<1>0. TypeOK
  BY DEF LinkInv
<1>1. CanReadReply(s) /\ Cluster /\ UNCHANGED <<delivered, out>>
        /\ q \in Req /\ Live(q[1])
        /\ redirects' = [redirects EXCEPT ![q] = @ + 1]
  BY DEF ReadRedirection
<1>2. /\ x \in ConnectConn /\ QueueOf(x) = Tail(Queues[s]) /\ x.link = sc[s].link
      /\ Queues[s] # <<>> /\ Head(Queues[s]) = q
      /\ P \in [Server -> Seq(Item)]
  BY <1>1, ReplyPops
<1>3. X = [sc EXCEPT ![s].sent = Tail(@)]
  BY <1>0 DEF TypeOK
<1>4. \/ sc' = X /\ SetResponse(cc[q[1]], q, a)
      \/ \E g \in GetShareConnection(X[t], fail[t]) :
           \/ sc' = [X EXCEPT ![t] = g.conn] /\ SetResponse(cc[q[1]], q, a)
           \/ sc' = [X EXCEPT ![t] = Requeued(g.conn, kind, q)] /\ UNCHANGED <<cc, res>>
  BY <1>3 DEF ReadRedirection
<1>5. a \in Answer /\ a.of = q
  <2>1. Head(wire[s]) = q
    BY <1>1, ReplyMatches
  <2> QED BY <1>1, <2>1 DEF Answer
<1> HIDE DEF x, q, a, P
<1>6. /\ X \in [Server -> ConnectConn]
      /\ \A u \in Server : QueueOf(X[u]) = P[u]
      /\ \A u \in Server : ~Open(X[u]) => QueueOf(X[u]) = <<>>
  <2>1. X \in [Server -> ConnectConn] /\ \A u \in Server : X[u] = IF u = s THEN x ELSE sc[u]
    BY <1>0, <1>2 DEF TypeOK
  <2>2. \A u \in Server : QueueOf(X[u]) = P[u]
    BY <1>0, <1>2, <2>1, QueuesAre DEF P, Pop
  <2>3. \A u \in Server : ~Open(X[u]) => QueueOf(X[u]) = <<>>
    <3>1. Open(x)
      BY <1>1, <1>2, ReplyMatches DEF Open
    <3> QED BY <2>1, <3>1, ClosedQueue
  <2> QED BY <2>1, <2>2, <2>3
<1>7. ASSUME NEW y, sc' = [X EXCEPT ![t] = y]
      PROVE  Queues' = [P EXCEPT ![t] = QueueOf(y)]
  <2>1. \A u \in Server : Queue(u)' = IF u = t THEN QueueOf(y) ELSE P[u]
    BY <1>6, <1>7 DEF Queue, QueueOf
  <2> QED BY <1>2, <2>1 DEF Queues
<1>8. ASSUME SetResponse(cc[q[1]], q, a), Queues' \in Reopened(P)
      PROVE  Takes(s)
  <2>1. AnsweredWith(q, a) /\ AllSeenSame
    BY <1>0, <1>1, <1>5, <1>8, SeenSameAnswered DEF AllSeenSame
  <2> QED BY <1>1, <1>2, <1>5, <1>8, <2>1 DEF Takes, Redirected, P
<1>9. CASE sc' = X /\ SetResponse(cc[q[1]], q, a)
  <2>1. \A u \in Server : Queue(u)' = P[u]
    BY <1>6, <1>9 DEF Queue, QueueOf
  <2>2. Queues' = P
    BY <1>2, <2>1 DEF Queues
  <2> QED BY <1>8, <1>9, <2>2 DEF Reopened
<1>10. ASSUME NEW g \in GetShareConnection(X[t], fail[t]),
              \/ sc' = [X EXCEPT ![t] = g.conn] /\ SetResponse(cc[q[1]], q, a)
              \/ sc' = [X EXCEPT ![t] = Requeued(g.conn, kind, q)] /\ UNCHANGED <<cc, res>>
       PROVE  Takes(s) \/ Redirects(s, t)
  <2>1. X[t] \in ConnectConn /\ fail[t] \in BOOLEAN
    BY <1>0, <1>6 DEF TypeOK
  <2>2. g.conn \in ConnectConn /\ QueueOf(g.conn) \in MayOpen(P[t])
    BY <1>6, <2>1, SharedConn, SharedQueue
  <2> DEFINE Q == [P EXCEPT ![t] = QueueOf(g.conn)]
  <2>3. Q \in Reopened(P)
    BY <1>2, <2>2, MayOpenQueues
  <2>4. CASE sc' = [X EXCEPT ![t] = g.conn] /\ SetResponse(cc[q[1]], q, a)
    BY <1>7, <1>8, <2>3, <2>4
  <2>5. CASE sc' = [X EXCEPT ![t] = Requeued(g.conn, kind, q)] /\ UNCHANGED <<cc, res>>
    <3>1. AllSeenSame
      BY <1>1, <2>5 DEF AllSeenSame, SeenSame
    <3>2. CASE Requeued(g.conn, kind, q) = g.conn
      <4>1. Queues' = Q
        BY <1>7, <2>5, <3>2
      <4> QED BY <1>1, <1>2, <2>3, <2>5, <3>1, <4>1 DEF Takes, Redirected, P
    <3>3. ASSUME NEW p \in {<<q>>, <<Asking, q>>}, Requeued(g.conn, kind, q) = Send(g.conn, p)
          PROVE  Redirects(s, t)
      <4>1. p \in Seq(Item)
        <5>1. q \in Item /\ Asking \in Item
          BY <1>1 DEF Item, Inner
        <5>2. <<q>> \in Seq(Item)
          BY <5>1
        <5>3. <<Asking, q>> \in Seq(Item)
          BY <5>1
        <5> QED BY <5>2, <5>3
      <4>2. Queues' = [P EXCEPT ![t] = QueueOf(g.conn) \o p]
        BY <1>7, <2>2, <2>5, <3>3, <4>1, SendQueue
      <4>3. Queues' = Put(Q, t, p)
        BY <1>2, <4>2 DEF Put
      <4> QED BY <1>1, <1>2, <2>3, <2>5, <3>1, <4>3 DEF Redirects, Redirected, P
    <3> QED BY <3>2, <3>3 DEF Requeued
  <2> QED BY <2>4, <2>5, <1>10
<1> QED BY <1>4, <1>9, <1>10

\* Closing a connection answers or drops its requests from the oldest on.
LEMMA CloseRequestKind ==
    ASSUME LinkInv, NEW q \in Req \cup Inner, CloseRequest(q)
    PROVE  Takes(cur)
<1>0. TypeOK /\ cur \in Server /\ sc[cur] \in ConnectConn
  BY DEF LinkInv, TypeOK
<1>1. UNCHANGED <<delivered, redirects, out>>
  BY DEF CloseRequest
<1>2. Queues[cur] = QueueOf(sc[cur]) /\ Queues \in [Server -> Seq(Item)]
  BY <1>0, QueuesAre
<1>3. PICK y : /\ sc' = [sc EXCEPT ![cur] = y] /\ QueueOf(y) = Tail(Queues[cur])
               /\ Queues[cur] # <<>> /\ Head(Queues[cur]) = q
  <2>1. CASE sc[cur].sent # <<>> /\ q = Head(sc[cur].sent)
             /\ sc' = [sc EXCEPT ![cur].sent = Tail(@)]
    <3>1. sc' = [sc EXCEPT ![cur] = [sc[cur] EXCEPT !.sent = Tail(@)]]
      BY <1>0, <2>1 DEF TypeOK
    <3> QED BY <1>0, <1>2, <2>1, <3>1, TailQueue
  <2>2. CASE sc[cur].sent = <<>> /\ sc[cur].send # <<>> /\ q = Head(sc[cur].send)
             /\ sc' = [sc EXCEPT ![cur].send = Tail(@)]
    <3> DEFINE y == [sc[cur] EXCEPT !.send = Tail(@)]
               w == sc[cur].send
    <3>1. w \in Seq(Item) /\ w # <<>> /\ Tail(w) \in Seq(Item)
      BY <1>0, <2>2, QueueOfConn, HeadTailProperties
    <3>2. sc' = [sc EXCEPT ![cur] = y]
      BY <1>0, <2>2 DEF TypeOK
    <3>3. y.send = Tail(w) /\ y.sent = <<>>
      BY <1>0, <2>2 DEF ConnectConn
    <3> HIDE DEF y, w
    <3>4. QueueOf(y) = Tail(w)
      BY <3>1, <3>3, ConcatEmptySeq DEF QueueOf
    <3>5. Queues[cur] = w
      BY <1>2, <2>2, <3>1, ConcatEmptySeq DEF QueueOf, w
    <3> QED BY <2>2, <3>1, <3>2, <3>4, <3>5 DEF w
  <2> QED BY <2>1, <2>2 DEF CloseRequest
<1>4. Queues' \in Reopened(Pop(Queues, cur))
  <2>1. Queues' = [Queues EXCEPT ![cur] = Tail(Queues[cur])]
    BY <1>0, <1>3, OneQueue
  <2> QED BY <2>1 DEF Pop, Reopened
<1>5. CASE Answerable(q)
  <2> DEFINE a == [kind |-> "proxy", of |-> q]
  <2>1. q \in Req /\ Live(q[1]) /\ SetResponse(cc[q[1]], q, a)
    BY <1>5 DEF CloseRequest, Answerable
  <2>2. a \in Answer /\ a.of = q
    BY <2>1, ProxyAnswer
  <2> HIDE DEF a
  <2>3. AnsweredWith(q, a) /\ AllSeenSame
    BY <1>0, <1>1, <2>1, <2>2, SeenSameAnswered DEF AllSeenSame
  <2> QED BY <1>1, <1>3, <1>4, <2>1, <2>2, <2>3 DEF Takes
<1>6. CASE ~Answerable(q)
  <2>1. UNCHANGED <<cc, res>> /\ (q \in Inner \/ ~Live(q[1]))
    BY <1>6 DEF CloseRequest, Answerable
  <2>2. AllSeenSame
    BY <1>1, <2>1 DEF AllSeenSame, SeenSame
  <2> QED BY <1>1, <1>3, <1>4, <2>1, <2>2 DEF Takes
<1> QED BY <1>5, <1>6

\* What the handler does to the connections without reading a response.
LEMMA QuietKinds ==
    ASSUME LinkInv,
           \/ \E s \in Server :
                \/ ServerWritable(s) \/ CheckPool(s) \/ TimedOut(s)
                \/ \E status \in {"IOError", "OtherError"} : ServerError(s, status)
           \/ EndWait \/ PostConnect \/ CloseSocket \/ TurnToAccept \/ EndPost
           \/ NoIdleClient \/ EndCheckPool \/ EndServerTimeout
    PROVE  Quiet
<1>0. TypeOK
  BY DEF LinkInv
<1>1. AllSeenSame /\ UNCHANGED <<res, redirects, delivered>>
  BY DEF ServerWritable, CheckPool, TimedOut, ServerError, EndWait, PostConnect,
         CloseSocket, TurnToAccept, EndPost, NoIdleClient, EndCheckPool,
         EndServerTimeout, AllSeenSame, SeenSame
<1>2. ASSUME NEW s \in Server, NEW z \in ConnectConn, NEW e \in Event,
             z.sent = sc[s].sent, z.send = sc[s].send,
             sc' = [sc EXCEPT ![s] = AddPost(z, e)]
      PROVE  Queues' \in Reopened(Queues)
  <2>1. QueueOf(AddPost(z, e)) = QueueOf(sc[s])
    BY <1>2, AddPostQueue DEF QueueOf
  <2> QED BY <1>0, <1>2, <2>1, OneSameQueue
<1>3. ASSUME NEW s \in Server, ServerWritable(s)
      PROVE  Queues' \in Reopened(Queues)
  <2> DEFINE z == [sc[s] EXCEPT !.link = "connected"]
  <2>1. z \in ConnectConn /\ z.sent = sc[s].sent /\ z.send = sc[s].send
    <3>1. sc[s] \in ConnectConn
      BY <1>0 DEF TypeOK
    <3> QED BY ONLY <3>1 DEF ConnectConn
  <2>2. sc' = [sc EXCEPT ![s] = AddPost(z, "Write")]
    BY <1>0, <1>3 DEF ServerWritable, TypeOK
  <2> HIDE DEF z
  <2> QED BY <1>2, <2>1, <2>2 DEF Event
<1>4. ASSUME NEW s \in Server, NEW status \in {"IOError", "OtherError"},
             ServerError(s, status)
      PROVE  Queues' \in Reopened(Queues)
  <2> DEFINE z == [sc[s] EXCEPT !.status = status]
  <2>1. z \in ConnectConn /\ z.sent = sc[s].sent /\ z.send = sc[s].send
    <3>1. sc[s] \in ConnectConn /\ status \in {"IOError", "OtherError"}
      BY <1>0 DEF TypeOK
    <3> QED BY ONLY <3>1 DEF ConnectConn
  <2>2. sc' = [sc EXCEPT ![s] = AddPost(z, "Error")]
    BY <1>0, <1>4 DEF ServerError, TypeOK
  <2> HIDE DEF z
  <2> QED BY <1>2, <2>1, <2>2 DEF Event
<1>5. ASSUME NEW s \in Server, TimedOut(s)
      PROVE  Queues' \in Reopened(Queues)
  <2> DEFINE z == [sc[s] EXCEPT !.status = "OtherError", !.wait = FALSE]
  <2>1. z \in ConnectConn /\ z.sent = sc[s].sent /\ z.send = sc[s].send
    <3>1. sc[s] \in ConnectConn
      BY <1>0 DEF TypeOK
    <3> QED BY ONLY <3>1 DEF ConnectConn
  <2>2. sc' = [sc EXCEPT ![s] = AddPost(z, "Error")]
    BY <1>0, <1>5 DEF TimedOut, TypeOK
  <2> HIDE DEF z
  <2> QED BY <1>2, <2>1, <2>2 DEF Event
<1>6. ASSUME NEW s \in Server, CheckPool(s)
      PROVE  Queues' \in Reopened(Queues)
  <2>1. sc[s] \in ConnectConn /\ ~Open(sc[s])
    BY <1>0, <1>6 DEF TypeOK, CheckPool, Open
  <2>2. PICK y \in Opened(sc[s]) : sc' = [sc EXCEPT ![s] = y]
    BY <1>6 DEF CheckPool
  <2>3. Queues \in [Server -> Seq(Item)] /\ Queues[s] = QueueOf(sc[s])
    BY <1>0, QueuesAre
  <2>4. QueueOf(y) \in MayOpen(Queues[s])
    BY <2>1, <2>3, OpenedQueue, ClosedQueue DEF MayOpen
  <2>5. Queues' = [Queues EXCEPT ![s] = QueueOf(y)]
    BY <1>0, <2>2, OneQueue
  <2> QED BY <2>3, <2>4, <2>5, MayOpenQueues
<1>7. ASSUME PostConnect
      PROVE  Queues' \in Reopened(Queues)
  <2> DEFINE s == Head(postS)
             x == [sc[s] EXCEPT !.post = {}]
             n == Len(x.send)
             writes == x.status = "Normal" /\ x.link = "connected" /\ sc[s].post = {"Write"}
  <2>1. s \in Server
    BY <1>0, <1>7, HeadTailProperties DEF PostConnect, TypeOK
  <2>2. x \in ConnectConn /\ x.sent = sc[s].sent /\ x.send = sc[s].send
    <3>1. sc[s] \in ConnectConn
      BY <1>0, <2>1 DEF TypeOK
    <3> QED BY ONLY <3>1 DEF ConnectConn
  <2>3. PICK k \in 0..n, bad \in BOOLEAN :
          LET y == IF ~writes THEN x
                   ELSE IF bad THEN [Flushed(x, k) EXCEPT !.status = "IOError",
                                                          !.writable = x.writable,
                                                          !.wait = x.wait]
                   ELSE Flushed(x, k)
          IN  sc' = [sc EXCEPT ![s] = y]
    BY <1>7 DEF PostConnect
  <2> HIDE DEF s, x, writes
  <2> DEFINE f == Flushed(x, k)
             failed == [f EXCEPT !.status = "IOError", !.writable = x.writable,
                                 !.wait = x.wait]
  <2>4. f \in ConnectConn /\ QueueOf(f) = QueueOf(x)
    BY <2>2, FlushedConn, FlushedQueue
  <2>5. sc' = [sc EXCEPT ![s] = x] \/ sc' = [sc EXCEPT ![s] = failed]
          \/ sc' = [sc EXCEPT ![s] = f]
    BY <2>3
  <2> HIDE DEF f
  <2>6. QueueOf(failed) = QueueOf(f)
    BY <2>4 DEF QueueOf, ConnectConn
  <2> HIDE DEF failed
  <2>7. QueueOf(x) = QueueOf(sc[s])
    BY <2>2 DEF QueueOf
  <2> QED BY <1>0, <2>1, <2>4, <2>5, <2>6, <2>7, OneSameQueue
<1>8. ASSUME CloseSocket
      PROVE  Queues' \in Reopened(Queues)
  <2> DEFINE y == [sc[cur] EXCEPT !.link = "closed", !.status = "None", !.writable = FALSE]
  <2>1. cur \in Server /\ sc[cur] \in ConnectConn
    BY <1>0 DEF TypeOK
  <2>2. sc' = [sc EXCEPT ![cur] = y]
    BY <1>0, <1>8, <2>1 DEF CloseSocket, TypeOK, ConnectConn
  <2>3. QueueOf(y) = QueueOf(sc[cur])
    BY <2>1 DEF QueueOf, ConnectConn
  <2> QED BY <1>0, <2>1, <2>2, <2>3, OneSameQueue
<1>9. ASSUME EndServerTimeout
      PROVE  Queues' \in Reopened(Queues)
  <2>1. \A s \in Server :
          QueueOf([sc[s] EXCEPT !.wait = @ /\ Waiting(sc[s])]) = QueueOf(sc[s])
    <3> TAKE s \in Server
    <3> DEFINE b == sc[s].wait /\ Waiting(sc[s])
    <3>1. sc[s] \in ConnectConn
      BY <1>0 DEF TypeOK
    <3> HIDE DEF b
    <3>2. QueueOf([sc[s] EXCEPT !.wait = b]) = QueueOf(sc[s])
      BY <3>1 DEF ConnectConn, QueueOf
    <3> QED BY <3>2 DEF b
  <2> QED BY <1>9, <2>1, SameQueues DEF EndServerTimeout
<1>10. ASSUME EndWait \/ TurnToAccept \/ EndPost \/ NoIdleClient \/ EndCheckPool
       PROVE  Queues' \in Reopened(Queues)
  <2>1. UNCHANGED sc
    BY <1>10 DEF EndWait, TurnToAccept, EndPost, NoIdleClient, EndCheckPool
  <2> QED BY <2>1, SameQueues
<1>11. Queues' \in Reopened(Queues)
  BY <1>3, <1>4, <1>5, <1>6, <1>7, <1>8, <1>9, <1>10
<1> QED BY <1>1, <1>11 DEF Quiet

\* A step that only concerns client c and its answers.
ClientOnly ==
    /\ UNCHANGED <<sc, res, redirects, delivered>>
    /\ \/ \E c \in Client : Accept(c) \/ ClientError(c)
       \/ PostAccept

\* Every step is one of these.
LEMMA StepKinds ==
    ASSUME LinkInv, [Next]_vars
    PROVE  \/ ClientOnly
           \/ Quiet
           \/ \E c \in Client : AsksOnly(c) \/ \E s \in Server : Forwards(c, s)
           \/ \E s \in Server : Takes(s) \/ \E t \in Server : Redirects(s, t)
<1>0. TypeOK
  BY DEF LinkInv
<1>1. ASSUME NEW c \in Client, ClientWritable(c) \/ IdleClient(c)
      PROVE  Quiet
  <2>1. UNCHANGED <<sc, delivered, res, redirects, out>>
    BY <1>1 DEF ClientWritable, IdleClient
  <2>2. Queues' \in Reopened(Queues)
    BY <2>1, SameQueues
  <2>3. \A d \in Client : SeenSame(d)
    <3>1. cc[c] \in AcceptConn
      BY <1>0 DEF TypeOK
    <3>2. PICK e \in Event : cc' = [cc EXCEPT ![c] = AddPost(@, e)]
      BY <1>1 DEF ClientWritable, IdleClient, Event
    <3>3. cc' = [cc EXCEPT ![c] = AddPost(cc[c], e)]
      BY <1>0, <3>2 DEF TypeOK
    <3> QED BY <1>0, <3>1, <3>3, AddPostClient, SeenSameButPost
  <2> QED BY <2>1, <2>2, <2>3 DEF Quiet, AllSeenSame
<1>2. ASSUME UNCHANGED vars
      PROVE  Quiet
  <2>1. UNCHANGED <<cc, sc, delivered, res, redirects, out>>
    BY <1>2 DEF vars
  <2>2. Queues' \in Reopened(Queues)
    BY <2>1, SameQueues
  <2> QED BY <2>1, <2>2 DEF Quiet, AllSeenSame, SeenSame
<1>3. ASSUME (\E c \in Client : Accept(c) \/ ClientError(c)) \/ PostAccept
      PROVE  ClientOnly
  BY <1>3 DEF ClientOnly, Accept, ClientError, PostAccept
<1>4. ASSUME NEW q \in Req \cup Inner, CloseRequest(q)
      PROVE  \E s \in Server : Takes(s)
  BY <1>0, <1>4, CloseRequestKind DEF TypeOK
<1>5. ASSUME NEW c \in Client,
             \/ ReadIgnored(c)
             \/ \E quit \in BOOLEAN : ReadDirect(c, quit)
             \/ ReadInvalid(c)
             \/ \E s \in Server : ReadForward(c, s)
      PROVE  AsksOnly(c) \/ \E s \in Server : Forwards(c, s)
  BY <1>5, ReadKinds
<1>6. ASSUME NEW s \in Server,
             \/ \E ok \in BOOLEAN : ReadInnerReply(s, ok)
             \/ ReadLateReply(s)
             \/ ReadReply(s)
      PROVE  Takes(s)
  BY <1>6, ReplyKinds
<1>7. ASSUME NEW s \in Server, NEW kind \in {"moved", "ask"}, NEW t \in Server,
             ReadRedirection(s, kind, t)
      PROVE  Takes(s) \/ Redirects(s, t)
  BY <1>7, RedirectionKinds
<1>8. ASSUME \/ \E s \in Server :
                  \/ ServerWritable(s) \/ CheckPool(s) \/ TimedOut(s)
                  \/ \E status \in {"IOError", "OtherError"} : ServerError(s, status)
             \/ EndWait \/ PostConnect \/ CloseSocket \/ TurnToAccept \/ EndPost
             \/ NoIdleClient \/ EndCheckPool \/ EndServerTimeout
      PROVE  Quiet
  BY <1>8, QuietKinds
<1>9. CASE SocketEvent
  BY <1>9, <1>1, <1>3, <1>5, <1>6, <1>7, <1>8, Zenon DEF SocketEvent
<1>10. CASE EndWait \/ PostStep \/ CheckStep \/ UNCHANGED vars
  BY <1>10, <1>1, <1>2, <1>3, <1>4, <1>8, Zenon DEF PostStep, CheckStep
<1> QED BY <1>9, <1>10 DEF Next

-----------------------------------------------------------------------------
(* What taking from and adding to the queues keeps.                        *)

\* Request r is queued somewhere.
Held(Q, r) == \E s \in Server : \E i \in 1..Len(Q[s]) : Q[s][i] = r

\* No request is queued twice.
Unique(Q) ==
    \A s, t \in Server : \A i \in 1..Len(Q[s]), j \in 1..Len(Q[t]) :
      Q[s][i] \in Req /\ Q[s][i] = Q[t][j] => s = t /\ i = j

\* Only requests of the proxy stand before one of the setting up.
SetupFirst(Q) ==
    \A s \in Server : \A i, j \in 1..Len(Q[s]) :
      i < j /\ Q[s][j] = Setup => Q[s][i] \in Inner

\* Behind every ASKING stands a request that was redirected, by the counts n.
AskingFollowed(Q, n) ==
    \A s \in Server : \A i \in 1..Len(Q[s]) :
      Q[s][i] = Asking =>
        /\ i < Len(Q[s])
        /\ Q[s][i + 1] \in Req
        /\ n[Q[s][i + 1]] > 0

\* Of the requests of clients, q has at most r, and that as its last.
OnlyLast(q, r) ==
    \A i \in 1..Len(q) : q[i] \in Inner \/ (q[i] = r /\ i = Len(q))

QueueType == [Server -> Seq(Item)]

\* A request is not both of a client and of the proxy.
LEMMA ReqNotInner == \A x : ~(x \in Req /\ x \in Inner)
BY PipelineAssumption

\* What is in the queues when q was added to that of s.
LEMMA PutElements ==
    ASSUME NEW Q \in QueueType, NEW s \in Server, NEW q \in Seq(Item)
    PROVE  /\ Put(Q, s, q) \in QueueType
           /\ \A t \in Server \ {s} : Put(Q, s, q)[t] = Q[t]
           /\ Len(Q[s]) \in Nat /\ Len(q) \in Nat
           /\ Len(Put(Q, s, q)[s]) = Len(Q[s]) + Len(q)
           /\ \A i \in 1..Len(Q[s]) : Put(Q, s, q)[s][i] = Q[s][i]
           /\ \A i \in Len(Q[s]) + 1..Len(Q[s]) + Len(q) :
                Put(Q, s, q)[s][i] = q[i - Len(Q[s])]
<1> DEFINE old == Q[s]
<1>1. old \in Seq(Item)
  BY DEF QueueType
<1>2. Put(Q, s, q)[s] = old \o q /\ \A t \in Server \ {s} : Put(Q, s, q)[t] = Q[t]
  BY DEF QueueType, Put
<1> HIDE DEF old
<1>3. /\ old \o q \in Seq(Item)
      /\ Len(old \o q) = Len(old) + Len(q)
      /\ \A i \in 1..Len(old) + Len(q) :
           (old \o q)[i] = IF i <= Len(old) THEN old[i] ELSE q[i - Len(old)]
  BY <1>1, ConcatProperties
<1>4. Len(old) \in Nat /\ Len(q) \in Nat
  BY <1>1, LenProperties
<1>5. Put(Q, s, q) \in QueueType
  BY <1>3 DEF Put, QueueType, old
<1>6. \A i \in 1..Len(old) : (old \o q)[i] = old[i]
  BY <1>3, <1>4
<1>7. \A i \in Len(old) + 1..Len(old) + Len(q) : (old \o q)[i] = q[i - Len(old)]
  BY <1>3, <1>4
<1> QED BY <1>2, <1>3, <1>4, <1>5, <1>6, <1>7 DEF old

\* What is in the queues when the head of that of s was taken.
LEMMA PopElements ==
    ASSUME NEW Q \in QueueType, NEW s \in Server, Q[s] # <<>>
    PROVE  /\ Pop(Q, s) \in QueueType
           /\ \A t \in Server \ {s} : Pop(Q, s)[t] = Q[t]
           /\ Len(Q[s]) \in Nat \ {0}
           /\ Len(Pop(Q, s)[s]) = Len(Q[s]) - 1
           /\ \A i \in 1..Len(Q[s]) - 1 : Pop(Q, s)[s][i] = Q[s][i + 1]
           /\ Head(Q[s]) = Q[s][1]
<1> DEFINE old == Q[s]
<1>1. old \in Seq(Item) /\ old # <<>>
  BY DEF QueueType
<1>2. Pop(Q, s)[s] = Tail(old) /\ \A t \in Server \ {s} : Pop(Q, s)[t] = Q[t]
  BY DEF QueueType, Pop
<1> HIDE DEF old
<1>3. /\ Tail(old) \in Seq(Item) /\ Len(Tail(old)) = Len(old) - 1
      /\ \A i \in 1..Len(old) - 1 : Tail(old)[i] = old[i + 1]
  BY <1>1, HeadTailProperties
<1>4. Len(old) \in Nat \ {0} /\ Head(old) = old[1]
  BY <1>1, EmptySeq
<1>5. Pop(Q, s) \in QueueType
  BY <1>3 DEF Pop, QueueType, old
<1> QED BY <1>2, <1>3, <1>4, <1>5 DEF old

\* What is queued after a request has left a queue, and after some were added.
LEMMA HeldAfterPop ==
    ASSUME NEW Q \in QueueType, NEW s \in Server, Q[s] # <<>>, NEW r
    PROVE  /\ Held(Pop(Q, s), r) => Held(Q, r)
           /\ Held(Q, r) /\ r # Head(Q[s]) => Held(Pop(Q, s), r)
           /\ Held(Q, Head(Q[s]))
           /\ Unique(Q) /\ Head(Q[s]) \in Req => ~Held(Pop(Q, s), Head(Q[s]))
<1> DEFINE P == Pop(Q, s)
           n == Len(Q[s])
<1>1. /\ \A t \in Server \ {s} : P[t] = Q[t]
      /\ n \in Nat \ {0} /\ Len(P[s]) = n - 1
      /\ \A i \in 1..n - 1 : P[s][i] = Q[s][i + 1]
      /\ Head(Q[s]) = Q[s][1]
  BY PopElements
<1> HIDE DEF P
<1>2. ASSUME NEW t \in Server, NEW i \in 1..Len(P[t])
      PROVE  \E j \in 1..Len(Q[t]) : P[t][i] = Q[t][j] /\ (t = s => j # 1)
  <2>1. CASE t = s
    <3>1. i + 1 \in 1..n /\ i \in 1..n - 1 /\ i + 1 # 1
      BY <1>1, <2>1
    <3> QED BY <1>1, <2>1, <3>1
  <2>2. CASE t # s
    BY <1>1, <2>2
  <2> QED BY <2>1, <2>2
<1>3. ASSUME NEW t \in Server, NEW j \in 1..Len(Q[t]), Q[t][j] # Head(Q[s])
      PROVE  \E i \in 1..Len(P[t]) : P[t][i] = Q[t][j]
  <2>1. CASE t = s
    <3>1. j # 1
      BY <1>1, <1>3, <2>1
    <3>2. j - 1 \in 1..n - 1 /\ (j - 1) + 1 = j
      BY <1>1, <2>1, <3>1
    <3>3. P[s][j - 1] = Q[s][j]
      BY <1>1, <3>2
    <3> QED BY <1>1, <2>1, <3>2, <3>3
  <2>2. CASE t # s
    BY <1>1, <2>2
  <2> QED BY <2>1, <2>2
<1>4. Held(P, r) => Held(Q, r)
  BY <1>2 DEF Held
<1>5. Held(Q, r) /\ r # Head(Q[s]) => Held(P, r)
  BY <1>3 DEF Held
<1>6. 1 \in 1..n
  BY <1>1
<1>7. Held(Q, Head(Q[s]))
  BY <1>1, <1>6 DEF Held
<1>8. ASSUME Unique(Q), Head(Q[s]) \in Req, Held(P, Head(Q[s]))
      PROVE  FALSE
  <2>0. PICK t \in Server : \E i \in 1..Len(P[t]) : P[t][i] = Q[s][1]
    BY <1>1, <1>8 DEF Held
  <2>1. PICK i \in 1..Len(P[t]) : P[t][i] = Q[s][1]
    BY <2>0
  <2>2. PICK j \in 1..Len(Q[t]) : Q[t][j] = Q[s][1] /\ (t = s => j # 1)
    BY <1>2, <2>1
  <2> QED BY <1>1, <1>6, <1>8, <2>2 DEF Unique
<1> QED BY <1>4, <1>5, <1>7, <1>8 DEF P

\* Adding q holds the requests of q, too.
LEMMA HeldAfterPut ==
    ASSUME NEW Q \in QueueType, NEW s \in Server, NEW q \in Seq(Item), NEW r
    PROVE  Held(Put(Q, s, q), r) <=> Held(Q, r) \/ \E i \in 1..Len(q) : q[i] = r
<1> DEFINE P == Put(Q, s, q)
           m == Len(Q[s])
           n == Len(q)
<1>1. /\ \A t \in Server \ {s} : P[t] = Q[t]
      /\ m \in Nat /\ n \in Nat
      /\ Len(P[s]) = m + n
      /\ \A i \in 1..m : P[s][i] = Q[s][i]
      /\ \A i \in m + 1..m + n : P[s][i] = q[i - m]
  BY PutElements
<1> HIDE DEF P
<1>2. ASSUME Held(P, r)
      PROVE  Held(Q, r) \/ \E i \in 1..n : q[i] = r
  <2>0. PICK t \in Server : \E i \in 1..Len(P[t]) : P[t][i] = r
    BY <1>2 DEF Held
  <2>1. PICK i \in 1..Len(P[t]) : P[t][i] = r
    BY <2>0
  <2>2. CASE t # s
    BY <1>1, <2>1, <2>2 DEF Held
  <2>3. CASE t = s /\ i \in 1..m
    BY <1>1, <2>1, <2>3 DEF Held
  <2>4. CASE t = s /\ i \in m + 1..m + n
    <3>1. i - m \in 1..n
      BY <1>1, <2>4
    <3> QED BY <1>1, <2>1, <2>4, <3>1
  <2> HIDE DEF m, n
  <2> QED BY <1>1, <2>1, <2>2, <2>3, <2>4
<1>3. ASSUME Held(Q, r)
      PROVE  Held(P, r)
  <2>0. PICK t \in Server : \E i \in 1..Len(Q[t]) : Q[t][i] = r
    BY <1>3 DEF Held
  <2>1. PICK i \in 1..Len(Q[t]) : Q[t][i] = r
    BY <2>0
  <2>2. CASE t # s
    BY <1>1, <2>1, <2>2 DEF Held
  <2>3. CASE t = s
    <3>1. i \in 1..m + n /\ i \in 1..m
      BY <1>1, <2>1, <2>3
    <3> QED BY <1>1, <2>1, <2>3, <3>1 DEF Held
  <2> QED BY <2>2, <2>3
<1>4. ASSUME NEW i \in 1..n, q[i] = r
      PROVE  Held(P, r)
  <2> HIDE DEF m, n
  <2>1. m + i \in m + 1..m + n /\ m + i \in 1..m + n /\ (m + i) - m = i
    BY <1>1, <1>4
  <2>2. P[s][m + i] = r
    BY <1>1, <1>4, <2>1
  <2> QED BY <1>1, <2>1, <2>2 DEF Held
<1> QED BY <1>2, <1>3, <1>4 DEF P

\* Taking a request leaves the others unique.
LEMMA UniqueAfterPop ==
    ASSUME NEW Q \in QueueType, NEW s \in Server, Q[s] # <<>>, Unique(Q)
    PROVE  Unique(Pop(Q, s))
<1> DEFINE P == Pop(Q, s)
           n == Len(Q[s])
           was == [t \in Server |-> IF t = s THEN 1 ELSE 0]
<1>1. /\ \A t \in Server \ {s} : P[t] = Q[t]
      /\ n \in Nat \ {0} /\ Len(P[s]) = n - 1
      /\ \A i \in 1..n - 1 : P[s][i] = Q[s][i + 1]
  BY PopElements
<1> HIDE DEF P
<1>2. ASSUME NEW t \in Server, NEW i \in 1..Len(P[t])
      PROVE  i + was[t] \in 1..Len(Q[t]) /\ P[t][i] = Q[t][i + was[t]]
  BY <1>1
<1>3. ASSUME NEW t \in Server, NEW u \in Server,
             NEW i \in 1..Len(P[t]), NEW j \in 1..Len(P[u]),
             P[t][i] \in Req, P[t][i] = P[u][j]
      PROVE  t = u /\ i = j
  <2>1. t = u /\ i + was[t] = j + was[u]
    <3> DEFINE a == i + was[t]
               b == j + was[u]
    <3>1. a \in 1..Len(Q[t]) /\ P[t][i] = Q[t][a]
      BY <1>2
    <3>2. b \in 1..Len(Q[u]) /\ P[u][j] = Q[u][b]
      BY <1>2
    <3> HIDE DEF a, b
    <3>3. Q[t][a] \in Req /\ Q[t][a] = Q[u][b]
      BY <1>3, <3>1, <3>2
    <3>4. t = u /\ a = b
      BY <3>1, <3>2, <3>3 DEF Unique
    <3> QED BY <3>4 DEF a, b
  <2> QED BY <2>1
<1> QED BY <1>3 DEF Unique, P

\* So does adding one request of a client that was not held.
LEMMA UniqueAfterPut ==
    ASSUME NEW Q \in QueueType, NEW s \in Server, NEW q \in Seq(Item), NEW r,
           Unique(Q), OnlyLast(q, r),
           Held(Q, r) => \A i \in 1..Len(q) : q[i] \in Inner
    PROVE  Unique(Put(Q, s, q))
<1> DEFINE P == Put(Q, s, q)
           m == Len(Q[s])
           n == Len(q)
<1>1. /\ \A t \in Server \ {s} : P[t] = Q[t]
      /\ m \in Nat /\ n \in Nat
      /\ Len(P[s]) = m + n
      /\ \A i \in 1..m : P[s][i] = Q[s][i]
      /\ \A i \in m + 1..m + n : P[s][i] = q[i - m]
  BY PutElements
<1> HIDE DEF P
<1>2. ASSUME NEW t \in Server, NEW i \in 1..Len(P[t]), P[t][i] \in Req
      PROVE  \/ i \in 1..Len(Q[t]) /\ P[t][i] = Q[t][i]
             \/ t = s /\ i = m + n /\ P[t][i] = r /\ ~Held(Q, r)
  <2>1. CASE t # s
    BY <1>1, <2>1
  <2>2. CASE t = s /\ i \in 1..m
    BY <1>1, <2>2
  <2>3. CASE t = s /\ i \in m + 1..m + n
    <3> HIDE DEF m, n
    <3>1. i - m \in 1..n /\ P[t][i] = q[i - m]
      BY <1>1, <2>3
    <3>2. q[i - m] = r /\ i - m = n /\ ~Held(Q, r)
      BY <1>2, <3>1, ReqNotInner DEF OnlyLast, n
    <3>3. i = m + n
      BY <1>1, <2>3, <3>2
    <3> QED BY <2>3, <3>1, <3>2, <3>3
  <2> HIDE DEF m, n
  <2> QED BY <1>1, <2>1, <2>2, <2>3
<1>3. ASSUME NEW t \in Server, NEW i \in 1..Len(Q[t]), ~Held(Q, r)
      PROVE  Q[t][i] # r
  BY <1>3 DEF Held
<1>4. ASSUME NEW t \in Server, NEW u \in Server,
             NEW i \in 1..Len(P[t]), NEW j \in 1..Len(P[u]),
             P[t][i] \in Req, P[t][i] = P[u][j]
      PROVE  t = u /\ i = j
  <2>1. /\ \/ i \in 1..Len(Q[t]) /\ P[t][i] = Q[t][i]
           \/ t = s /\ i = m + n /\ P[t][i] = r /\ ~Held(Q, r)
        /\ \/ j \in 1..Len(Q[u]) /\ P[u][j] = Q[u][j]
           \/ u = s /\ j = m + n /\ P[u][j] = r /\ ~Held(Q, r)
    BY <1>2, <1>4
  <2> HIDE DEF m, n
  <2> QED BY <1>3, <1>4, <2>1 DEF Unique
<1> QED BY <1>4 DEF Unique, P

\* Taking the head of a queue keeps the setting up in front.
LEMMA SetupFirstAfterPop ==
    ASSUME NEW Q \in QueueType, NEW s \in Server, Q[s] # <<>>, SetupFirst(Q)
    PROVE  SetupFirst(Pop(Q, s))
<1> DEFINE P == Pop(Q, s)
           n == Len(Q[s])
<1>1. /\ \A t \in Server \ {s} : P[t] = Q[t]
      /\ n \in Nat \ {0} /\ Len(P[s]) = n - 1
      /\ \A i \in 1..n - 1 : P[s][i] = Q[s][i + 1]
  BY PopElements
<1> HIDE DEF P
<1>2. ASSUME NEW i \in 1..Len(P[s]), NEW j \in 1..Len(P[s]), i < j, P[s][j] = Setup
      PROVE  P[s][i] \in Inner
  <2>1. i + 1 \in 1..n /\ j + 1 \in 1..n /\ i + 1 < j + 1 /\ i \in 1..n - 1 /\ j \in 1..n - 1
    BY <1>1, <1>2
  <2>2. P[s][i] = Q[s][i + 1] /\ Q[s][j + 1] = Setup
    BY <1>1, <1>2, <2>1
  <2> QED BY <2>1, <2>2 DEF SetupFirst
<1> SUFFICES ASSUME NEW t \in Server, NEW i \in 1..Len(P[t]), NEW j \in 1..Len(P[t]),
                    i < j, P[t][j] = Setup
             PROVE  P[t][i] \in Inner
  BY DEF SetupFirst, P
<1> QED BY <1>1, <1>2 DEF SetupFirst

\* Requests are added behind others only if they are not of the setting up.
LEMMA SetupFirstAfterPut ==
    ASSUME NEW Q \in QueueType, NEW s \in Server, NEW q \in Seq(Item), SetupFirst(Q),
           \/ \A i \in 1..Len(q) : q[i] # Setup
           \/ Q[s] = <<>> /\ \A i \in 1..Len(q) : q[i] \in Inner
    PROVE  SetupFirst(Put(Q, s, q))
<1> DEFINE P == Put(Q, s, q)
           m == Len(Q[s])
           n == Len(q)
<1>1. /\ \A t \in Server \ {s} : P[t] = Q[t]
      /\ m \in Nat /\ n \in Nat
      /\ Len(P[s]) = m + n
      /\ \A i \in 1..m : P[s][i] = Q[s][i]
      /\ \A i \in m + 1..m + n : P[s][i] = q[i - m]
  BY PutElements
<1> HIDE DEF P
<1>2. ASSUME NEW i \in 1..Len(P[s]), NEW j \in 1..Len(P[s]), i < j, P[s][j] = Setup
      PROVE  P[s][i] \in Inner
  <2>1. CASE \A l \in 1..n : q[l] # Setup
    <3>1. ~(j \in m + 1..m + n)
      <4>1. j \in m + 1..m + n => j - m \in 1..n
        BY <1>1
      <4> QED BY <1>1, <1>2, <2>1, <4>1
    <3>2. i \in 1..m /\ j \in 1..m
      BY <1>1, <1>2, <3>1
    <3> QED BY <1>1, <1>2, <3>2 DEF SetupFirst
  <2>2. CASE Q[s] = <<>> /\ \A l \in 1..n : q[l] \in Inner
    <3>1. m = 0
      BY <2>2
    <3>2. i \in m + 1..m + n /\ i - m \in 1..n
      BY <1>1, <3>1
    <3> QED BY <1>1, <2>2, <3>2
  <2> QED BY <2>1, <2>2
<1> SUFFICES ASSUME NEW t \in Server, NEW i \in 1..Len(P[t]), NEW j \in 1..Len(P[t]),
                    i < j, P[t][j] = Setup
             PROVE  P[t][i] \in Inner
  BY DEF SetupFirst, P
<1> QED BY <1>1, <1>2 DEF SetupFirst

\* What was queued stays followed as it was, when the counts only grow.
LEMMA AskingAfterPop ==
    ASSUME NEW Q \in QueueType, NEW s \in Server, Q[s] # <<>>, NEW n, NEW k,
           AskingFollowed(Q, n), \A r \in Req : n[r] > 0 => k[r] > 0
    PROVE  AskingFollowed(Pop(Q, s), k)
<1> DEFINE P == Pop(Q, s)
           m == Len(Q[s])
<1>1. /\ \A t \in Server \ {s} : P[t] = Q[t]
      /\ m \in Nat \ {0} /\ Len(P[s]) = m - 1
      /\ \A i \in 1..m - 1 : P[s][i] = Q[s][i + 1]
  BY PopElements
<1> HIDE DEF P
<1>2. ASSUME NEW i \in 1..Len(P[s]), P[s][i] = Asking
      PROVE  i < Len(P[s]) /\ P[s][i + 1] \in Req /\ k[P[s][i + 1]] > 0
  <2>1. i + 1 \in 1..m /\ i \in 1..m - 1
    BY <1>1
  <2>2. i + 1 < m /\ Q[s][(i + 1) + 1] \in Req /\ n[Q[s][(i + 1) + 1]] > 0
    BY <1>1, <1>2, <2>1 DEF AskingFollowed
  <2>3. i < Len(P[s]) /\ P[s][i + 1] = Q[s][(i + 1) + 1]
    BY <1>1, <2>1, <2>2
  <2> QED BY <2>2, <2>3
<1> SUFFICES ASSUME NEW t \in Server, NEW i \in 1..Len(P[t]), P[t][i] = Asking
             PROVE  i < Len(P[t]) /\ P[t][i + 1] \in Req /\ k[P[t][i + 1]] > 0
  BY DEF AskingFollowed, P
<1>3. CASE t = s
  BY <1>2, <1>3
<1>4. CASE t # s
  BY <1>1, <1>4 DEF AskingFollowed
<1> QED BY <1>3, <1>4

\* Adding requests keeps AskingFollowed, if they do.
LEMMA AskingAfterPut ==
    ASSUME NEW Q \in QueueType, NEW s \in Server, NEW q \in Seq(Item), NEW n, NEW k,
           AskingFollowed(Q, n), \A r \in Req : n[r] > 0 => k[r] > 0,
           \A i \in 1..Len(q) :
             q[i] = Asking => i < Len(q) /\ q[i + 1] \in Req /\ k[q[i + 1]] > 0
    PROVE  AskingFollowed(Put(Q, s, q), k)
<1> DEFINE P == Put(Q, s, q)
           m == Len(Q[s])
           l == Len(q)
<1>1. /\ \A t \in Server \ {s} : P[t] = Q[t]
      /\ m \in Nat /\ l \in Nat
      /\ Len(P[s]) = m + l
      /\ \A i \in 1..m : P[s][i] = Q[s][i]
      /\ \A i \in m + 1..m + l : P[s][i] = q[i - m]
  BY PutElements
<1> HIDE DEF P
<1>2. ASSUME NEW i \in 1..Len(P[s]), P[s][i] = Asking
      PROVE  i < Len(P[s]) /\ P[s][i + 1] \in Req /\ k[P[s][i + 1]] > 0
  <2>1. CASE i \in 1..m
    <3>0. i \in 1..Len(Q[s]) /\ Q[s][i] = Asking
      BY <1>1, <1>2, <2>1
    <3>1. i < m /\ Q[s][i + 1] \in Req /\ n[Q[s][i + 1]] > 0
      BY <3>0 DEF AskingFollowed
    <3>2. i < Len(P[s]) /\ P[s][i + 1] = Q[s][i + 1]
      <4> HIDE DEF m, l
      <4>1. i + 1 \in 1..m /\ i < m + l
        BY <1>1, <2>1, <3>1
      <4> QED BY <1>1, <4>1
    <3> QED BY <3>1, <3>2
  <2>2. CASE i \in m + 1..m + l
    <3> DEFINE j == i - m
    <3> HIDE DEF m, l
    <3>1. j \in 1..l /\ q[j] = Asking
      BY <1>1, <1>2, <2>2
    <3>2. j < l /\ q[j + 1] \in Req /\ k[q[j + 1]] > 0
      BY <3>1 DEF l
    <3>3. i < Len(P[s]) /\ i + 1 \in m + 1..m + l /\ (i + 1) - m = j + 1
      BY <1>1, <2>2, <3>2
    <3>4. P[s][i + 1] = q[j + 1]
      BY <1>1, <3>3
    <3> QED BY <3>2, <3>3, <3>4
  <2> QED BY <1>1, <2>1, <2>2
<1> SUFFICES ASSUME NEW t \in Server, NEW i \in 1..Len(P[t]), P[t][i] = Asking
             PROVE  i < Len(P[t]) /\ P[t][i + 1] \in Req /\ k[P[t][i + 1]] > 0
  BY DEF AskingFollowed, P
<1>3. CASE t = s
  BY <1>2, <1>3
<1>4. CASE t # s
  BY <1>1, <1>4 DEF AskingFollowed
<1> QED BY <1>3, <1>4

\* The handshake on a queue that was empty harms none of this.
LEMMA ReopenedKeeps ==
    ASSUME NEW Q \in QueueType, NEW R \in Reopened(Q)
    PROVE  /\ R \in QueueType
           /\ \A r \in Req : Held(R, r) <=> Held(Q, r)
           /\ Unique(Q) => Unique(R)
           /\ SetupFirst(Q) => SetupFirst(R)
           /\ \A n : AskingFollowed(Q, n) => AskingFollowed(R, n)
<1>1. CASE R = Q
  BY <1>1
<1>2. ASSUME NEW s \in Server, Q[s] = <<>>, R = Put(Q, s, Handshake)
      PROVE  /\ R \in QueueType
             /\ \A r \in Req : Held(R, r) <=> Held(Q, r)
             /\ Unique(Q) => Unique(R)
             /\ SetupFirst(Q) => SetupFirst(R)
             /\ \A n : AskingFollowed(Q, n) => AskingFollowed(R, n)
  <2>1. \A i \in 1..Len(Handshake) : Handshake[i] \in Inner /\ Handshake[i] # Asking
    <3>1. \A i \in 1..Len(Handshake) : Handshake[i] \in {Setup, PingServ}
      BY PipelineAssumption, ElementOfSeq
    <3> QED BY <3>1, PipelineAssumption DEF Inner
  <2>2. Handshake \in Seq(Item)
    <3>1. {Setup, PingServ} \subseteq Item
      BY DEF Item, Inner
    <3> QED BY <3>1, PipelineAssumption, SeqMonotonic
  <2> HIDE <1>2
  <2>3. R \in QueueType
    BY <1>2, <2>2, PutElements
  <2>4. \A r \in Req : Held(R, r) <=> Held(Q, r)
    BY <1>2, <2>1, <2>2, HeldAfterPut, ReqNotInner
  <2>5. Unique(Q) => Unique(R)
    <3>1. OnlyLast(Handshake, Setup)
      BY <2>1 DEF OnlyLast
    <3> QED BY <1>2, <2>1, <2>2, <3>1, UniqueAfterPut
  <2>6. SetupFirst(Q) => SetupFirst(R)
    BY <1>2, <2>1, <2>2, SetupFirstAfterPut
  <2>7. ASSUME NEW n, AskingFollowed(Q, n)
        PROVE  AskingFollowed(R, n)
    BY <1>2, <2>1, <2>2, <2>7, AskingAfterPut
  <2> QED BY <2>3, <2>4, <2>5, <2>6, <2>7
<1> QED BY <1>1, <1>2 DEF Reopened

-----------------------------------------------------------------------------
(* What is queued: the requests that were read and have no answer, each at  *)
(* one place.                                                              *)

\* Only requests that were read are queued, answered or passed on.
Placed ==
    \A r \in Req :
      Held(Queues, r) \/ Done(r) \/ delivered[r] \/ redirects[r] > 0 =>
        r[2] <= cc[r[1]].parsed

\* A request that is queued has no answer.
Undone == \A r \in Req : Held(Queues, r) => ~Done(r)

QueueInv == Placed /\ Undone /\ Unique(Queues)

\* Request r is added, alone or behind ASKING, to queues that do not hold it.
LEMMA RequestAdded ==
    ASSUME NEW Q \in QueueType, NEW s \in Server, NEW r \in Req,
           NEW p \in {<<r>>, <<Asking, r>>}, Unique(Q), ~Held(Q, r)
    PROVE  /\ Put(Q, s, p) \in QueueType
           /\ Unique(Put(Q, s, p))
           /\ \A x \in Req : Held(Put(Q, s, p), x) <=> Held(Q, x) \/ x = r
<1>1. p \in Seq(Item) /\ Len(p) \in {1, 2} /\ p[Len(p)] = r
        /\ \A i \in 1..Len(p) : p[i] \in Inner \/ (p[i] = r /\ i = Len(p))
  <2>1. r \in Item /\ Asking \in Item /\ Asking \in Inner
    BY DEF Item, Inner
  <2>2. CASE p = <<r>>
    BY <2>1, <2>2
  <2>3. CASE p = <<Asking, r>>
    <3>1. p \in Seq(Item) /\ Len(p) = 2 /\ p[1] = Asking /\ p[2] = r
      BY <2>1, <2>3
    <3> QED BY <2>1, <3>1
  <2> QED BY <2>2, <2>3
<1>2. OnlyLast(p, r)
  BY <1>1 DEF OnlyLast
<1>3. Put(Q, s, p) \in QueueType /\ Unique(Put(Q, s, p))
  BY <1>1, <1>2, PutElements, UniqueAfterPut
<1>4. ASSUME NEW x \in Req
      PROVE  (\E i \in 1..Len(p) : p[i] = x) <=> x = r
  <2>1. Len(p) \in 1..Len(p)
    BY <1>1
  <2> QED BY <1>1, <2>1, ReqNotInner
<1> QED BY <1>1, <1>3, <1>4, HeldAfterPut

\* What writing answers to a client does: client c is written the answers of
\* its k oldest requests.
Written(c, k) ==
    LET x == cc[c]
        n == Len(cc[c].requests)
        writes == cc[c].good /\ "Write" \in cc[c].post
    IN
      /\ postA # <<>> /\ c = Head(postA) /\ postA' = Tail(postA)
      /\ \A i \in 1..k : x.requests[i] \in Req /\ Done(x.requests[i])
      /\ out' = [out EXCEPT ![c] = @ \o [i \in 1..k |-> res[x.requests[i]]]]
      /\ k > 0 => writes
      /\ \A d \in Client \ {c} : cc'[d] = cc[d]
      /\ cc'[c].parsed = x.parsed /\ cc'[c].post = {}
      /\ cc'[c].good => x.good
      /\ \/ x.fd = "open" /\ cc'[c].fd = "closed" /\ cc'[c].requests = <<>>
         \/ /\ cc'[c].fd = x.fd
            /\ ~writes
            /\ cc'[c].requests = x.requests
            /\ cc'[c].good = x.good /\ cc'[c].writable = x.writable
         \/ /\ cc'[c].fd = x.fd
            /\ writes
            /\ cc'[c].requests = SubSeq(x.requests, k + 1, n)
            /\ cc'[c].writable <=> ~(k = n \/ ~Done(x.requests[k + 1]))

\* PostAccept is such a writing.
LEMMA PostAcceptWrites ==
    ASSUME TypeOK, PostAccept
    PROVE  \E c \in Client : \E k \in 0..Len(cc[c].requests) : Written(c, k)
<1> DEFINE c == Head(postA)
           x == [cc[c] EXCEPT !.post = {}]
           n == Len(x.requests)
           writes == x.good /\ "Write" \in cc[c].post
<1>1. postA # <<>> /\ postA' = Tail(postA)
  BY DEF PostAccept
<1>2. c \in Client
  BY <1>1, HeadTailProperties DEF TypeOK
<1>3. /\ x \in AcceptConn /\ x.requests = cc[c].requests /\ x.fd = cc[c].fd
      /\ x.parsed = cc[c].parsed /\ x.good = cc[c].good /\ x.post = {}
      /\ x.writable = cc[c].writable
  BY <1>2 DEF TypeOK, AcceptConn
<1>4. x.requests \in Seq(Req) /\ n \in Nat
  BY <1>3, LenProperties DEF AcceptConn
<1> HIDE DEF c, x, n, writes
<1>5. PICK k \in 0..n, bad \in BOOLEAN :
        LET finished == k = n \/ ~Done(x.requests[k + 1])
            y == IF writes
                 THEN [x EXCEPT !.requests = SubSeq(@, k + 1, n),
                                !.good = ~bad /\ ~(finished /\ x.closeASAP),
                                !.writable = ~finished]
                 ELSE x
        IN
          /\ ~writes => k = 0
          /\ bad => writes /\ ~finished
          /\ \A i \in 1..k : Done(x.requests[i])
          /\ cc' = [cc EXCEPT ![c] =
                      IF (~y.good \/ "Error" \in cc[c].post) /\ y.fd = "open"
                      THEN [y EXCEPT !.fd = "closed", !.requests = <<>>, !.writable = FALSE]
                      ELSE y]
          /\ out' = [out EXCEPT ![c] = @ \o [i \in 1..k |-> res[x.requests[i]]]]
  BY ONLY PostAccept, Zenon DEF PostAccept, c, x, n, writes
<1> DEFINE finished == k = n \/ ~Done(x.requests[k + 1])
           good == ~bad /\ ~(finished /\ x.closeASAP)
           wr == ~finished
           rest == SubSeq(x.requests, k + 1, n)
           y == IF writes
                THEN [x EXCEPT !.requests = rest, !.good = good, !.writable = wr]
                ELSE x
           z == [y EXCEPT !.fd = "closed", !.requests = <<>>, !.writable = FALSE]
<1>6. \A i \in 1..n : x.requests[i] \in Req
  BY <1>4, ElementOfSeq DEF n
<1>7. k \in Nat /\ k <= n
  BY <1>4
<1>8. rest \in Seq(Req)
  <2>1. \A i \in k + 1..n : x.requests[i] \in Req
    BY <1>4, <1>6, <1>7
  <2> QED BY <1>4, <1>7, <2>1, SubSeqProperties
<1>9. good \in BOOLEAN /\ wr \in BOOLEAN
  OBVIOUS
<1>10. \/ cc' = [cc EXCEPT ![c] = z] /\ y.fd = "open"
       \/ cc' = [cc EXCEPT ![c] = y]
  BY <1>5
<1>11. /\ y \in AcceptConn /\ y.fd = x.fd /\ y.parsed = x.parsed /\ y.post = {}
       /\ writes => y.requests = rest /\ y.writable = wr
       /\ ~writes => y = x
  <2> HIDE DEF rest, good, wr
  <2> QED BY <1>3, <1>8, <1>9 DEF AcceptConn
<1>12. y.good => x.good
  BY <1>11 DEF writes
<1> HIDE DEF y
<1>13. /\ z.fd = "closed" /\ z.requests = <<>> /\ z.parsed = y.parsed
       /\ z.post = {} /\ z.good = y.good
  BY <1>11 DEF AcceptConn
<1> HIDE DEF z
<1>14. \A d \in Client \ {c} : cc'[d] = cc[d]
  BY <1>2, <1>10 DEF TypeOK
<1>15. /\ cc'[c].parsed = cc[c].parsed /\ cc'[c].post = {}
       /\ cc'[c].good => cc[c].good
       /\ \/ cc[c].fd = "open" /\ cc'[c].fd = "closed" /\ cc'[c].requests = <<>>
          \/ cc'[c] = y /\ cc'[c].fd = cc[c].fd
  <2>1. CASE cc' = [cc EXCEPT ![c] = z] /\ y.fd = "open"
    BY <1>2, <1>3, <1>11, <1>12, <1>13, <2>1 DEF TypeOK
  <2>2. CASE cc' = [cc EXCEPT ![c] = y]
    BY <1>2, <1>3, <1>11, <1>12, <2>2 DEF TypeOK
  <2> QED BY <1>10, <2>1, <2>2
<1>16. \A i \in 1..k : cc[c].requests[i] \in Req /\ Done(cc[c].requests[i])
  BY <1>3, <1>4, <1>5, <1>6, <1>7
<1>17. k > 0 => writes
  BY <1>5
<1>18. out' = [out EXCEPT ![c] = @ \o [i \in 1..k |-> res[cc[c].requests[i]]]]
  BY <1>3, <1>5
<1>19. writes <=> cc[c].good /\ "Write" \in cc[c].post
  BY <1>3 DEF writes
<1>20. n = Len(cc[c].requests) /\ rest = SubSeq(cc[c].requests, k + 1, n)
         /\ (wr <=> ~(k = n \/ ~Done(cc[c].requests[k + 1])))
  BY <1>3 DEF n
<1> HIDE DEF rest, wr, good, finished
<1>21. Written(c, k)
  <2>1. \/ cc[c].fd = "open" /\ cc'[c].fd = "closed" /\ cc'[c].requests = <<>>
        \/ /\ cc'[c].fd = cc[c].fd /\ ~writes
           /\ cc'[c].requests = cc[c].requests
           /\ cc'[c].good = cc[c].good /\ cc'[c].writable = cc[c].writable
        \/ /\ cc'[c].fd = cc[c].fd /\ writes
           /\ cc'[c].requests = rest
           /\ cc'[c].writable = wr
    BY <1>3, <1>11, <1>15
  <2> QED BY <1>1, <1>14, <1>15, <1>16, <1>17, <1>18, <1>19, <1>20, <2>1 DEF Written, c
<1> QED BY <1>2, <1>20, <1>21

\* The number of requests read is a number.
LEMMA ParsedIsNat ==
    ASSUME TypeOK
    PROVE  \A c \in Client : cc[c].parsed \in Nat
<1> TAKE c \in Client
<1>1. cc[c] \in AcceptConn
  BY DEF TypeOK
<1>2. cc[c].parsed \in 0..MaxReq
  BY <1>1 DEF AcceptConn
<1> QED BY <1>2, PipelineAssumption

\* The requests that were read stay read.
LEMMA ReadsOnlyGrow ==
    ASSUME TypeOK, \/ ClientOnly \/ AllSeenSame \/ \E c \in Client : Asks(c)
    PROVE  \A c \in Client : cc[c].parsed <= cc'[c].parsed
<1>1. \A c \in Client : cc[c].parsed \in Nat
  BY ParsedIsNat
<1>2. CASE AllSeenSame \/ \E c \in Client : Asks(c)
  <2>1. ASSUME NEW d \in Client
        PROVE  cc'[d].parsed = cc[d].parsed \/ cc'[d].parsed = cc[d].parsed + 1
    <3>1. CASE AllSeenSame
      BY <3>1 DEF AllSeenSame, SeenSame
    <3>2. ASSUME NEW c \in Client, Asks(c)
          PROVE  cc'[d].parsed = cc[d].parsed \/ cc'[d].parsed = cc[d].parsed + 1
      BY <3>2 DEF Asks, SeenSame
    <3> QED BY <1>2, <3>1, <3>2
  <2> QED BY <1>1, <2>1
<1>3. ASSUME NEW c \in Client, Accept(c) \/ ClientError(c)
      PROVE  \A d \in Client : cc'[d].parsed = cc[d].parsed
  <2>1. cc[c] \in AcceptConn /\ [cc[c] EXCEPT !.good = FALSE] \in AcceptConn
          /\ [cc[c] EXCEPT !.good = FALSE].parsed = cc[c].parsed
    BY DEF TypeOK, AcceptConn
  <2>2. CASE Accept(c)
    BY <2>1, <2>2 DEF Accept, TypeOK, AcceptConn
  <2>3. CASE ClientError(c)
    BY <2>1, <2>3, AddPostClient DEF ClientError, TypeOK, Event
  <2> QED BY <1>3, <2>2, <2>3
<1>4. CASE PostAccept
  <2>1. PICK c \in Client : \E k \in 0..Len(cc[c].requests) : Written(c, k)
    BY <1>4, PostAcceptWrites
  <2>2. cc'[c].parsed = cc[c].parsed /\ \A d \in Client \ {c} : cc'[d] = cc[d]
    BY <2>1 DEF Written
  <2> QED BY <1>1, <2>2
<1> QED BY <1>1, <1>2, <1>3, <1>4 DEF ClientOnly

\* What was placed stays so, and what is new was just read.
LEMMA PlacedKept ==
    ASSUME LinkInv, [Next]_vars, Placed,
           \/ ClientOnly \/ AllSeenSame \/ \E c \in Client : Asks(c),
           \A r \in Req :
             Held(Queues', r) \/ res'[r] # NoRes \/ delivered'[r] \/ redirects'[r] > 0 =>
               \/ Held(Queues, r) \/ Done(r) \/ delivered[r] \/ redirects[r] > 0
               \/ r[2] <= cc'[r[1]].parsed
    PROVE  Placed'
<1>1. TypeOK /\ TypeOK'
  <2>1. LinkInv'
    BY StepKeepsLink
  <2> QED BY <2>1 DEF LinkInv
<1>2. \A c \in Client : cc[c].parsed \in Nat /\ cc'[c].parsed \in Nat
  <2>1. \A c \in Client : cc[c].parsed \in Nat
    BY <1>1, ParsedIsNat
  <2>2. \A c \in Client : cc'[c].parsed \in 0..MaxReq
    <3> TAKE c \in Client
    <3>1. cc'[c] \in AcceptConn
      BY <1>1 DEF TypeOK
    <3> QED BY <3>1 DEF AcceptConn
  <2> QED BY <2>1, <2>2, PipelineAssumption
<1>3. \A r \in Req : r[1] \in Client /\ r[2] \in Nat
  BY PipelineAssumption DEF Req
<1> SUFFICES ASSUME NEW r \in Req,
                    Held(Queues', r) \/ res'[r] # NoRes \/ delivered'[r] \/ redirects'[r] > 0
             PROVE  r[2] <= cc'[r[1]].parsed
  BY DEF Placed, Held, Done
<1>4. CASE Held(Queues, r) \/ Done(r) \/ delivered[r] \/ redirects[r] > 0
  <2>1. r[2] <= cc[r[1]].parsed
    BY <1>4 DEF Placed
  <2>2. cc[r[1]].parsed <= cc'[r[1]].parsed
    BY <1>1, <1>3, ReadsOnlyGrow
  <2> QED BY <1>2, <1>3, <2>1, <2>2
<1> QED BY <1>4

\* A redirection is counted for one request.
LEMMA RedirectedCounts ==
    ASSUME TypeOK, NEW q \in Req, NEW r \in Req, Redirected(q)
    PROVE  /\ redirects[r] > 0 => redirects'[r] > 0
           /\ redirects'[q] > 0
           /\ redirects'[r] > 0 => redirects[r] > 0 \/ r = q
BY DEF TypeOK, Redirected

\* A step keeps QueueInv.
LEMMA StepKeepsQueue ==
    ASSUME LinkInv, QueueInv, [Next]_vars
    PROVE  QueueInv'
<1>0. TypeOK /\ Queues \in QueueType
  BY QueuesAre DEF LinkInv, QueueType
<1>1. Placed /\ Unique(Queues) /\ \A r \in Req : Held(Queues, r) => res[r] = NoRes
  BY DEF QueueInv, Undone, Done
<1> SUFFICES /\ Placed' /\ Unique(Queues')
             /\ \A r \in Req : Held(Queues', r) => res'[r] = NoRes
  BY DEF QueueInv, Undone, Held, Unique, Done
<1>2. ASSUME \/ ClientOnly \/ AllSeenSame,
             Queues' \in Reopened(Queues), UNCHANGED <<res, redirects, delivered>>
      PROVE  /\ Placed' /\ Unique(Queues')
             /\ \A r \in Req : Held(Queues', r) => res'[r] = NoRes
  <2>1. Unique(Queues') /\ \A r \in Req : Held(Queues', r) <=> Held(Queues, r)
    BY <1>0, <1>1, <1>2, ReopenedKeeps
  <2>2. Placed'
    BY <1>1, <1>2, <2>1, PlacedKept DEF Done
  <2> QED BY <1>1, <1>2, <2>1, <2>2
<1>3. CASE ClientOnly
  <2>1. Queues' = Queues
    BY <1>3 DEF ClientOnly, Queues, Queue
  <2> QED BY <1>2, <1>3, <2>1 DEF ClientOnly, Reopened
<1>4. CASE Quiet
  BY <1>2, <1>4 DEF Quiet
<1>5. ASSUME NEW c \in Client, Asks(c)
      PROVE  /\ NextReq(c) \in Req /\ NextReq(c)[2] <= cc'[NextReq(c)[1]].parsed
             /\ ~Held(Queues, NextReq(c)) /\ res[NextReq(c)] = NoRes
  <2>1. cc[c].parsed \in Nat /\ cc'[c].parsed = cc[c].parsed + 1
    BY <1>0, <1>5, PipelineAssumption DEF TypeOK, AcceptConn, Asks
  <2>2. NextReq(c) \in Req /\ NextReq(c)[1] = c /\ NextReq(c)[2] = cc[c].parsed + 1
    BY <1>5 DEF Asks, NextReq
  <2>3. ~(NextReq(c)[2] <= cc[NextReq(c)[1]].parsed)
    BY <2>1, <2>2
  <2>4. ~Held(Queues, NextReq(c)) /\ ~Done(NextReq(c))
    BY <1>1, <2>2, <2>3 DEF Placed
  <2> QED BY <2>1, <2>2, <2>4 DEF Done
<1>6. ASSUME NEW c \in Client, AsksOnly(c)
      PROVE  /\ Placed' /\ Unique(Queues')
             /\ \A r \in Req : Held(Queues', r) => res'[r] = NoRes
  <2>1. Asks(c) /\ Queues' \in Reopened(Queues) /\ UNCHANGED redirects
          /\ \/ UNCHANGED <<res, delivered>>
             \/ /\ \E a \in Answer : AnsweredWith(NextReq(c), a)
                /\ delivered' \in {delivered, [delivered EXCEPT ![NextReq(c)] = TRUE]}
    BY <1>6 DEF AsksOnly, Asks
  <2>2. Unique(Queues') /\ \A r \in Req : Held(Queues', r) <=> Held(Queues, r)
    BY <1>0, <1>1, <2>1, ReopenedKeeps
  <2>3. \A r \in Req \ {NextReq(c)} : res'[r] = res[r] /\ delivered'[r] = delivered[r]
    BY <1>0, <1>5, <2>1 DEF AnsweredWith, TypeOK
  <2>4. Placed'
    BY <1>1, <1>5, <2>1, <2>2, <2>3, PlacedKept DEF Done
  <2> QED BY <1>1, <1>5, <2>1, <2>2, <2>3, <2>4
<1>7. ASSUME NEW c \in Client, NEW s \in Server, Forwards(c, s)
      PROVE  /\ Placed' /\ Unique(Queues')
             /\ \A r \in Req : Held(Queues', r) => res'[r] = NoRes
  <2>1. Asks(c) /\ UNCHANGED <<res, redirects>>
          /\ delivered' = [delivered EXCEPT ![NextReq(c)] = TRUE]
    BY <1>7 DEF Forwards, Asks
  <2>2. PICK Q \in Reopened(Queues) : Queues' = Put(Q, s, <<NextReq(c)>>)
    BY <1>7 DEF Forwards
  <2>3. Q \in QueueType /\ Unique(Q) /\ \A r \in Req : Held(Q, r) <=> Held(Queues, r)
    BY <1>0, <1>1, ReopenedKeeps
  <2>4. /\ Unique(Queues')
        /\ \A r \in Req : Held(Queues', r) <=> Held(Queues, r) \/ r = NextReq(c)
    BY <1>5, <2>1, <2>2, <2>3, RequestAdded
  <2>5. \A r \in Req \ {NextReq(c)} : delivered'[r] = delivered[r]
    BY <1>0, <1>5, <2>1 DEF TypeOK
  <2>6. Placed'
    BY <1>1, <1>5, <2>1, <2>4, <2>5, PlacedKept DEF Done
  <2> QED BY <1>1, <1>5, <2>1, <2>4, <2>6
<1>8. ASSUME NEW s \in Server, Queues[s] # <<>>
      PROVE  /\ Pop(Queues, s) \in QueueType /\ Unique(Pop(Queues, s))
             /\ \A r \in Req : Held(Pop(Queues, s), r) => Held(Queues, r) /\ r # Head(Queues[s])
             /\ Held(Queues, Head(Queues[s]))
  BY <1>0, <1>1, <1>8, PopElements, UniqueAfterPop, HeldAfterPop
<1>9. ASSUME NEW s \in Server, Takes(s)
      PROVE  /\ Placed' /\ Unique(Queues')
             /\ \A r \in Req : Held(Queues', r) => res'[r] = NoRes
  <2> DEFINE q == Head(Queues[s])
  <2>1. AllSeenSame /\ Queues[s] # <<>> /\ Queues' \in Reopened(Pop(Queues, s))
          /\ UNCHANGED delivered
    BY <1>9 DEF Takes
  <2>2. UNCHANGED res \/ (q \in Req /\ \E a \in Answer : AnsweredWith(q, a))
    BY <1>9 DEF Takes
  <2>3. UNCHANGED redirects \/ (q \in Req /\ Redirected(q))
    BY <1>9 DEF Takes
  <2>4. Held(Queues, q)
    BY <1>8, <2>1
  <2> HIDE DEF q
  <2>5. Unique(Queues') /\ \A r \in Req : Held(Queues', r) => Held(Queues, r) /\ r # q
    BY <1>8, <2>1, ReopenedKeeps DEF q
  <2>6. \A r \in Req : res'[r] = res[r] \/ r = q
    BY <1>0, <2>2 DEF AnsweredWith, TypeOK
  <2>7. \A r \in Req : redirects'[r] > 0 => redirects[r] > 0 \/ r = q
    BY <1>0, <2>3, RedirectedCounts
  <2>8. Placed'
    BY <1>1, <2>1, <2>4, <2>5, <2>6, <2>7, PlacedKept DEF Done
  <2> QED BY <1>1, <2>5, <2>6, <2>8
<1>10. ASSUME NEW s \in Server, NEW t \in Server, Redirects(s, t)
       PROVE  /\ Placed' /\ Unique(Queues')
              /\ \A r \in Req : Held(Queues', r) => res'[r] = NoRes
  <2> DEFINE q == Head(Queues[s])
  <2>1. AllSeenSame /\ Queues[s] # <<>> /\ UNCHANGED <<res, delivered>>
          /\ q \in Req /\ Redirected(q)
    BY <1>10 DEF Redirects
  <2>2. PICK Q \in Reopened(Pop(Queues, s)), p \in {<<q>>, <<Asking, q>>} :
          Queues' = Put(Q, t, p)
    BY <1>10 DEF Redirects
  <2>3. Held(Queues, q)
    BY <1>8, <2>1
  <2> HIDE DEF q
  <2>4. Q \in QueueType /\ Unique(Q) /\ \A r \in Req : Held(Q, r) => Held(Queues, r) /\ r # q
    BY <1>8, <2>1, ReopenedKeeps DEF q
  <2>5. Unique(Queues') /\ \A r \in Req : Held(Queues', r) => Held(Queues, r)
    BY <2>1, <2>2, <2>3, <2>4, RequestAdded
  <2>6. \A r \in Req : redirects'[r] > 0 => redirects[r] > 0 \/ r = q
    BY <1>0, <2>1, RedirectedCounts
  <2>7. Placed'
    BY <1>1, <2>1, <2>3, <2>5, <2>6, PlacedKept DEF Done
  <2> QED BY <1>1, <2>1, <2>5, <2>7
<1> QED BY <1>3, <1>4, <1>6, <1>7, <1>9, <1>10, StepKinds

\* On every reachable state the queues hold requests that were read and have no
\* answer, each once.
THEOREM QueueInvariant == Spec => []QueueInv
<1>1. Init => QueueInv
  <2> SUFFICES ASSUME Init PROVE QueueInv
    OBVIOUS
  <2>1. \A s \in Server : Queues[s] = <<>>
    BY DEF Init, Queues, Queue
  <2>2. Len(<<>>) = 0
    OBVIOUS
  <2>3. Unique(Queues) /\ \A r : ~Held(Queues, r)
    BY <2>1, <2>2 DEF Unique, Held
  <2> QED BY <2>3 DEF Init, QueueInv, Placed, Undone, Done
<1>2. LinkInv /\ QueueInv /\ [Next]_vars => QueueInv'
  BY StepKeepsQueue
<1> QED BY <1>1, <1>2, LinkInvariant, PTL DEF Spec

\* A request waits at one place only and not once it has its answer: it is not
\* sent to two servers or twice to one, and gets no second answer.
THEOREM QueuedOnceAlways == Spec => []QueuedOnce
<1>1. QueueInv => QueuedOnce
  <2> SUFFICES ASSUME QueueInv,
                      NEW s \in Server, NEW t \in Server,
                      NEW i \in 1..Len(Queue(s)), NEW j \in 1..Len(Queue(t)),
                      Queue(s)[i] \in Req
               PROVE  /\ ~Done(Queue(s)[i])
                      /\ Queue(s)[i] = Queue(t)[j] => s = t /\ i = j
    BY DEF QueuedOnce
  <2>1. Queues[s] = Queue(s) /\ Queues[t] = Queue(t)
    BY DEF Queues
  <2>2. Held(Queues, Queue(s)[i])
    BY <2>1 DEF Held
  <2> QED BY <2>1, <2>2 DEF QueueInv, Undone, Unique
<1> QED BY <1>1, QueueInvariant, PTL

-----------------------------------------------------------------------------
(* What stands where in a queue.                                           *)

\* A request of a client is none of the proxy's own.
LEMMA PutRequest ==
    ASSUME NEW r \in Req, NEW p \in {<<r>>, <<Asking, r>>}
    PROVE  /\ p \in Seq(Item)
           /\ \A i \in 1..Len(p) : p[i] # Setup
           /\ \A i \in 1..Len(p) : p[i] = Asking => i < Len(p) /\ p[i + 1] = r
<1>1. r \in Item /\ Asking \in Item /\ r # Setup /\ r # Asking /\ Asking # Setup
  BY PipelineAssumption DEF Item, Inner
<1>2. CASE p = <<r>>
  BY <1>1, <1>2
<1>3. CASE p = <<Asking, r>>
  <2>1. p \in Seq(Item) /\ Len(p) = 2 /\ p[1] = Asking /\ p[2] = r
    BY <1>1, <1>3
  <2> QED BY <1>1, <2>1
<1> QED BY <1>2, <1>3

\* A step keeps what is set up first, and what follows ASKING.
LEMMA StepKeepsPlaces ==
    ASSUME LinkInv, SetupFirst(Queues), AskingFollowed(Queues, redirects), [Next]_vars
    PROVE  SetupFirst(Queues') /\ AskingFollowed(Queues', redirects')
<1>0. TypeOK /\ Queues \in QueueType
  BY QueuesAre DEF LinkInv, QueueType
<1>1. ASSUME NEW Q \in QueueType, SetupFirst(Q), AskingFollowed(Q, redirects'),
             NEW R \in Reopened(Q), NEW t \in Server, NEW r \in Req,
             NEW p \in {<<r>>, <<Asking, r>>}, p = <<r>> \/ redirects'[r] > 0,
             Queues' = Put(R, t, p)
      PROVE  SetupFirst(Queues') /\ AskingFollowed(Queues', redirects')
  <2>1. R \in QueueType /\ SetupFirst(R) /\ AskingFollowed(R, redirects')
    BY <1>1, ReopenedKeeps
  <2>2. /\ p \in Seq(Item)
        /\ \A i \in 1..Len(p) : p[i] # Setup
        /\ \A i \in 1..Len(p) : p[i] = Asking => i < Len(p) /\ p[i + 1] = r
    BY PutRequest
  <2>3. \A i \in 1..Len(p) :
          p[i] = Asking => i < Len(p) /\ p[i + 1] \in Req /\ redirects'[p[i + 1]] > 0
    <3>1. CASE p = <<r>>
      <4>1. Len(p) = 1 /\ p[1] = r
        BY <3>1
      <4> QED BY <2>2, <4>1
    <3>2. CASE redirects'[r] > 0
      BY <2>2, <3>2
    <3> QED BY <1>1, <3>1, <3>2
  <2>4. SetupFirst(Queues')
    BY <1>1, <2>1, <2>2, SetupFirstAfterPut
  <2>5. AskingFollowed(Queues', redirects')
    BY <1>1, <2>1, <2>2, <2>3, AskingAfterPut
  <2> QED BY <2>4, <2>5
<1>2. CASE ClientOnly
  <2>1. Queues' = Queues /\ redirects' = redirects
    BY <1>2 DEF ClientOnly, Queues, Queue
  <2> QED BY <2>1
<1>3. ASSUME Queues' \in Reopened(Queues), UNCHANGED redirects
      PROVE  SetupFirst(Queues') /\ AskingFollowed(Queues', redirects')
  BY <1>0, <1>3, ReopenedKeeps
<1>4. CASE Quiet
  BY <1>3, <1>4 DEF Quiet
<1>5. ASSUME NEW c \in Client, AsksOnly(c)
      PROVE  SetupFirst(Queues') /\ AskingFollowed(Queues', redirects')
  BY <1>3, <1>5 DEF AsksOnly, Asks
<1>6. ASSUME NEW c \in Client, NEW s \in Server, Forwards(c, s)
      PROVE  SetupFirst(Queues') /\ AskingFollowed(Queues', redirects')
  <2>1. NextReq(c) \in Req /\ redirects' = redirects
    BY <1>6 DEF Forwards, Asks
  <2>2. PICK R \in Reopened(Queues) : Queues' = Put(R, s, <<NextReq(c)>>)
    BY <1>6 DEF Forwards
  <2> QED BY <1>0, <1>1, <2>1, <2>2
<1>7. ASSUME NEW s \in Server, Queues[s] # <<>>,
             \/ UNCHANGED redirects
             \/ Head(Queues[s]) \in Req /\ Redirected(Head(Queues[s]))
      PROVE  /\ Pop(Queues, s) \in QueueType
             /\ SetupFirst(Pop(Queues, s))
             /\ AskingFollowed(Pop(Queues, s), redirects')
  <2>1. \A r \in Req : redirects[r] > 0 => redirects'[r] > 0
    BY <1>0, <1>7, RedirectedCounts
  <2> QED BY <1>0, <1>7, <2>1, PopElements, SetupFirstAfterPop, AskingAfterPop
<1>8. ASSUME NEW s \in Server, Takes(s)
      PROVE  SetupFirst(Queues') /\ AskingFollowed(Queues', redirects')
  <2>1. Queues[s] # <<>> /\ Queues' \in Reopened(Pop(Queues, s))
    BY <1>8 DEF Takes
  <2>2. \/ UNCHANGED redirects
        \/ Head(Queues[s]) \in Req /\ Redirected(Head(Queues[s]))
    BY <1>8 DEF Takes
  <2> QED BY <1>7, <2>1, <2>2, ReopenedKeeps
<1>9. ASSUME NEW s \in Server, NEW t \in Server, Redirects(s, t)
      PROVE  SetupFirst(Queues') /\ AskingFollowed(Queues', redirects')
  <2> DEFINE q == Head(Queues[s])
  <2>1. Queues[s] # <<>> /\ q \in Req /\ Redirected(q)
    BY <1>9 DEF Redirects
  <2>2. PICK R \in Reopened(Pop(Queues, s)), p \in {<<q>>, <<Asking, q>>} :
          Queues' = Put(R, t, p)
    BY <1>9 DEF Redirects
  <2>3. redirects'[q] > 0
    BY <1>0, <2>1, RedirectedCounts
  <2>4. /\ Pop(Queues, s) \in QueueType
        /\ SetupFirst(Pop(Queues, s))
        /\ AskingFollowed(Pop(Queues, s), redirects')
    BY <1>7, <2>1
  <2> HIDE DEF q
  <2> QED BY <1>1, <2>1, <2>2, <2>3, <2>4
<1> QED BY <1>2, <1>4, <1>5, <1>6, <1>8, <1>9, StepKinds

\* The places in the queues are those of Queue.
LEMMA PlacesOfQueue ==
    /\ SetupFirst(Queues) <=> HandshakeFirst
    /\ AskingFollowed(Queues, redirects) <=> AskingAdjacent
<1>1. \A s \in Server : Queues[s] = Queue(s)
  BY DEF Queues
<1>2. SetupFirst(Queues) <=> HandshakeFirst
  BY <1>1 DEF SetupFirst, HandshakeFirst
<1>3. AskingFollowed(Queues, redirects) <=> AskingAdjacent
  BY <1>1 DEF AskingFollowed, AskingAdjacent
<1> QED BY <1>2, <1>3

PlacesInv == SetupFirst(Queues) /\ AskingFollowed(Queues, redirects)

\* On every reachable state the queues are in order.
THEOREM PlacesInvariant == Spec => []PlacesInv
<1>1. Init => PlacesInv
  <2> SUFFICES ASSUME Init PROVE PlacesInv
    OBVIOUS
  <2>1. \A s \in Server : Queues[s] = <<>>
    BY DEF Init, Queues, Queue
  <2>2. Len(<<>>) = 0
    OBVIOUS
  <2> QED BY <2>1, <2>2 DEF PlacesInv, SetupFirst, AskingFollowed
<1>2. LinkInv /\ PlacesInv /\ [Next]_vars => PlacesInv'
  <2> SUFFICES ASSUME LinkInv, PlacesInv, [Next]_vars PROVE PlacesInv'
    OBVIOUS
  <2>1. SetupFirst(Queues') /\ AskingFollowed(Queues', redirects')
    BY StepKeepsPlaces DEF PlacesInv
  <2> QED BY <2>1 DEF PlacesInv, SetupFirst, AskingFollowed
<1> QED BY <1>1, <1>2, LinkInvariant, PTL DEF Spec

\* On a new connection nothing of a client precedes AUTH, READONLY and SELECT,
\* whatever made the handler open it.
THEOREM HandshakeFirstAlways == Spec => []HandshakeFirst
<1>1. PlacesInv => HandshakeFirst
  BY PlacesOfQueue DEF PlacesInv
<1> QED BY <1>1, PlacesInvariant, PTL

\* An ASKING is followed at once by the request it is for, also when a write was
\* cut short between the two, or when the connection is being closed.
THEOREM AskingAdjacentAlways == Spec => []AskingAdjacent
<1>1. PlacesInv => AskingAdjacent
  BY PlacesOfQueue DEF PlacesInv
<1> QED BY <1>1, PlacesInvariant, PTL

-----------------------------------------------------------------------------
(* No request is forgotten.                                                *)

\* A client that was not accepted has sent nothing.
NothingEarly == \A c \in Client : cc[c].fd = "none" => cc[c].parsed = 0

\* A request that was passed on, but never sent on by a cluster, is queued
\* until it is answered or its client has gone.
PassedOnHeld ==
    \A r \in Req :
      delivered[r] /\ ~Done(r) /\ Live(r[1]) /\ redirects[r] = 0 => Held(Queues, r)

OnlyClustersRedirect == ~Cluster => \A r \in Req : redirects[r] = 0

KeptInv == NothingEarly /\ PassedOnHeld /\ OnlyClustersRedirect

\* What a step of a client alone changes.
LEMMA ClientOnlySeen ==
    ASSUME TypeOK, ClientOnly, NEW c \in Client
    PROVE  /\ cc'[c].fd = "none" => cc[c].fd = "none"
           /\ cc'[c].parsed = cc[c].parsed
           /\ cc'[c].fd = "open" /\ cc'[c].good =>
                cc[c].good /\ (cc[c].fd = "open" \/ cc[c].fd = "none")
<1>1. ASSUME NEW d \in Client, Accept(d)
      PROVE  /\ cc'[c].fd = "none" => cc[c].fd = "none"
             /\ cc'[c].parsed = cc[c].parsed
             /\ cc'[c].fd = "open" /\ cc'[c].good =>
                  cc[c].good /\ (cc[c].fd = "open" \/ cc[c].fd = "none")
  <2>1. [cc[d] EXCEPT !.fd = "open"].parsed = cc[d].parsed
          /\ [cc[d] EXCEPT !.fd = "open"].good = cc[d].good
          /\ [cc[d] EXCEPT !.fd = "open"].fd = "open"
    BY DEF TypeOK, AcceptConn
  <2>2. cc' = [cc EXCEPT ![d] = [cc[d] EXCEPT !.fd = "open"]] /\ cc[d].fd = "none"
    BY <1>1 DEF Accept, TypeOK
  <2>3. cc'[c] = cc[c] \/ (c = d /\ cc'[c] = [cc[d] EXCEPT !.fd = "open"])
    BY <2>2 DEF TypeOK
  <2> QED BY <2>1, <2>2, <2>3
<1>2. ASSUME NEW d \in Client, ClientError(d)
      PROVE  /\ cc'[c].fd = "none" => cc[c].fd = "none"
             /\ cc'[c].parsed = cc[c].parsed
             /\ cc'[c].fd = "open" /\ cc'[c].good =>
                  cc[c].good /\ (cc[c].fd = "open" \/ cc[c].fd = "none")
  <2> DEFINE x == [cc[d] EXCEPT !.good = FALSE]
  <2>1. x \in AcceptConn /\ x.parsed = cc[d].parsed /\ x.fd = cc[d].fd /\ ~x.good
    <3>1. cc[d] \in AcceptConn
      BY DEF TypeOK
    <3> QED BY ONLY <3>1 DEF AcceptConn
  <2>2. cc' = [cc EXCEPT ![d] = AddPost(x, "Error")]
    BY <1>2 DEF ClientError, TypeOK
  <2> HIDE DEF x
  <2>3. cc'[c] = cc[c] \/ (c = d /\ cc'[c] = AddPost(x, "Error"))
    BY <2>2 DEF TypeOK
  <2>4. AddPost(x, "Error").parsed = x.parsed /\ AddPost(x, "Error").fd = x.fd
          /\ AddPost(x, "Error").good = x.good
    BY <2>1, AddPostClient DEF Event
  <2>5. CASE cc'[c] = cc[c]
    <3>1. cc[c] \in AcceptConn
      BY DEF TypeOK
    <3> QED BY <2>5, <3>1 DEF AcceptConn
  <2>6. CASE c = d /\ cc'[c] = AddPost(x, "Error")
    BY <2>1, <2>4, <2>6
  <2> QED BY <2>3, <2>5, <2>6
<1>3. CASE PostAccept
  <2>1. PICK d \in Client : \E k \in 0..Len(cc[d].requests) : Written(d, k)
    BY <1>3, PostAcceptWrites
  <2>2. /\ cc'[d].parsed = cc[d].parsed /\ (cc'[d].good => cc[d].good)
        /\ cc'[d].fd = cc[d].fd \/ cc'[d].fd = "closed"
        /\ \A e \in Client \ {d} : cc'[e] = cc[e]
    BY <2>1 DEF Written
  <2>3. cc[c].fd \in {"none", "open", "closed"}
    BY DEF TypeOK, AcceptConn
  <2>4. CASE c = d
    BY <2>2, <2>3, <2>4
  <2>5. CASE c # d
    BY <2>2, <2>3, <2>5
  <2> QED BY <2>4, <2>5
<1> QED BY <1>1, <1>2, <1>3 DEF ClientOnly

\* A step keeps KeptInv.
LEMMA StepKeepsKept ==
    ASSUME LinkInv, QueueInv, KeptInv, [Next]_vars
    PROVE  KeptInv'
<1>0. TypeOK /\ Queues \in QueueType
  BY QueuesAre DEF LinkInv, QueueType
<1>1. /\ \A c \in Client : cc[c].fd = "none" => cc[c].parsed = 0
      /\ \A r \in Req :
           delivered[r] /\ res[r] = NoRes /\ Live(r[1]) /\ redirects[r] = 0 => Held(Queues, r)
      /\ OnlyClustersRedirect
  BY DEF KeptInv, NothingEarly, PassedOnHeld, Done
<1>2. \A r \in Req : r[1] \in Client /\ r[2] \in Nat \ {0}
  BY PipelineAssumption DEF Req
<1>3. \A r \in Req : redirects[r] \in Nat
  BY <1>0 DEF TypeOK
<1> DEFINE Goal == /\ NothingEarly'
                   /\ \A r \in Req :
                        delivered'[r] /\ res'[r] = NoRes /\ Live(r[1])' /\ redirects'[r] = 0 =>
                          Held(Queues', r)
                   /\ OnlyClustersRedirect'
<1> SUFFICES Goal
  BY DEF KeptInv, NothingEarly, PassedOnHeld, Held, Done
<1>4. CASE ClientOnly
  <2>1. Queues' = Queues /\ UNCHANGED <<res, redirects, delivered>>
    BY <1>4 DEF ClientOnly, Queues, Queue
  <2>2. NothingEarly'
    BY <1>0, <1>1, <1>4, ClientOnlySeen DEF NothingEarly
  <2>3. OnlyClustersRedirect'
    BY <1>1, <2>1 DEF OnlyClustersRedirect
  <2>4. ASSUME NEW r \in Req, delivered[r], res[r] = NoRes, Live(r[1])', redirects[r] = 0
        PROVE  Held(Queues, r)
    <3>1. cc[r[1]].good /\ (cc[r[1]].fd = "open" \/ cc[r[1]].fd = "none")
      BY <1>0, <1>2, <1>4, <2>4, ClientOnlySeen DEF Live
    <3>2. r[2] <= cc[r[1]].parsed
      BY <2>4 DEF QueueInv, Placed
    <3>3. cc[r[1]].fd # "none"
      BY <1>1, <1>2, <3>2
    <3> QED BY <1>1, <2>4, <3>1, <3>3 DEF Live
  <2> QED BY <2>1, <2>2, <2>3, <2>4
<1>5. ASSUME AllSeenSame
      PROVE  NothingEarly' /\ \A r \in Req : Live(r[1])' <=> Live(r[1])
  BY <1>1, <1>2, <1>5 DEF AllSeenSame, SeenSame, NothingEarly, Live
<1>6. CASE Quiet
  <2>1. AllSeenSame /\ Queues' \in Reopened(Queues) /\ UNCHANGED <<res, redirects, delivered>>
    BY <1>6 DEF Quiet
  <2>2. \A r \in Req : Held(Queues', r) <=> Held(Queues, r)
    BY <1>0, <2>1, ReopenedKeeps
  <2>3. OnlyClustersRedirect'
    BY <1>1, <2>1 DEF OnlyClustersRedirect
  <2> QED BY <1>1, <1>5, <2>1, <2>2, <2>3
<1>7. ASSUME NEW c \in Client, Asks(c)
      PROVE  NothingEarly' /\ OnlyClustersRedirect'
             /\ \A r \in Req : Live(r[1])' <=> Live(r[1])
  <2>1. cc[c].fd = "open" /\ cc'[c].fd = cc[c].fd /\ cc'[c].good = cc[c].good
          /\ UNCHANGED redirects
          /\ \A d \in Client \ {c} : SeenSame(d)
    BY <1>7 DEF Asks, CanRead, Live
  <2>2. ASSUME NEW d \in Client
        PROVE  /\ cc'[d].fd = cc[d].fd /\ cc'[d].good = cc[d].good
               /\ cc'[d].fd = "none" => cc'[d].parsed = 0
    <3>1. CASE d = c
      BY <2>1, <3>1
    <3>2. CASE d # c
      BY <1>1, <2>1, <3>2 DEF SeenSame
    <3> QED BY <3>1, <3>2
  <2>3. OnlyClustersRedirect'
    BY <1>1, <2>1 DEF OnlyClustersRedirect
  <2> QED BY <1>2, <2>2, <2>3 DEF NothingEarly, Live
<1>8. ASSUME NEW c \in Client, AsksOnly(c)
      PROVE  Goal
  <2>1. Asks(c) /\ Queues' \in Reopened(Queues) /\ UNCHANGED redirects
          /\ NextReq(c) \in Req
          /\ \/ UNCHANGED <<res, delivered>>
             \/ /\ \E a \in Answer : AnsweredWith(NextReq(c), a)
                /\ delivered' \in {delivered, [delivered EXCEPT ![NextReq(c)] = TRUE]}
    BY <1>8 DEF AsksOnly, Asks
  <2>2. \A r \in Req : Held(Queues', r) <=> Held(Queues, r)
    BY <1>0, <2>1, ReopenedKeeps
  <2>3. ASSUME NEW r \in Req, delivered'[r], res'[r] = NoRes
        PROVE  delivered[r] /\ res[r] = NoRes
    <3>1. CASE UNCHANGED <<res, delivered>>
      BY <2>3, <3>1
    <3>2. ASSUME NEW a \in Answer, AnsweredWith(NextReq(c), a),
                 delivered' \in {delivered, [delivered EXCEPT ![NextReq(c)] = TRUE]}
          PROVE  delivered[r] /\ res[r] = NoRes
      <4>1. res' = [res EXCEPT ![NextReq(c)] = a] /\ a # NoRes
        BY <3>2 DEF AnsweredWith, Answer, NoRes
      <4>2. r # NextReq(c)
        BY <1>0, <2>1, <2>3, <4>1 DEF TypeOK
      <4> QED BY <1>0, <2>1, <2>3, <3>2, <4>1, <4>2 DEF TypeOK
    <3> QED BY <2>1, <3>1, <3>2
  <2> QED BY <1>1, <1>7, <2>1, <2>2, <2>3
<1>9. ASSUME NEW c \in Client, NEW s \in Server, Forwards(c, s)
      PROVE  Goal
  <2>1. Asks(c) /\ UNCHANGED <<res, redirects>> /\ NextReq(c) \in Req
          /\ delivered' = [delivered EXCEPT ![NextReq(c)] = TRUE]
    BY <1>9 DEF Forwards, Asks
  <2>2. PICK Q \in Reopened(Queues) : Queues' = Put(Q, s, <<NextReq(c)>>)
    BY <1>9 DEF Forwards
  <2>3. Q \in QueueType /\ \A r \in Req : Held(Q, r) <=> Held(Queues, r)
    BY <1>0, ReopenedKeeps
  <2>4. \A r \in Req : Held(Queues, r) \/ r = NextReq(c) => Held(Queues', r)
    <3>1. <<NextReq(c)>> \in Seq(Item) /\ Len(<<NextReq(c)>>) = 1
            /\ <<NextReq(c)>>[1] = NextReq(c) /\ 1 \in 1..1
      BY <2>1 DEF Item
    <3> QED BY <2>2, <2>3, <3>1, HeldAfterPut
  <2>5. \A r \in Req \ {NextReq(c)} : delivered'[r] = delivered[r]
    BY <1>0, <2>1 DEF TypeOK
  <2> QED BY <1>1, <1>7, <2>1, <2>4, <2>5
<1>10. ASSUME NEW q \in Req, Redirected(q)
       PROVE  OnlyClustersRedirect' /\ \A r \in Req : redirects'[r] = 0 => redirects[r] = 0 /\ r # q
  <2>1. ASSUME NEW r \in Req, redirects'[r] = 0
        PROVE  redirects[r] = 0 /\ r # q
    BY <1>0, <1>3, <1>10, <2>1, RedirectedCounts
  <2> QED BY <1>10, <2>1 DEF Redirected, OnlyClustersRedirect
<1>11. ASSUME NEW s \in Server, Takes(s)
       PROVE  Goal
  <2> DEFINE q == Head(Queues[s])
  <2>1. AllSeenSame /\ Queues[s] # <<>> /\ Queues' \in Reopened(Pop(Queues, s))
          /\ UNCHANGED delivered
    BY <1>11 DEF Takes
  <2>2. \/ /\ q \in Req
           /\ \E a \in Answer : AnsweredWith(q, a)
           /\ UNCHANGED redirects \/ Redirected(q)
        \/ /\ q \in Inner \/ ~Live(q[1])
           /\ UNCHANGED <<res, redirects>>
        \/ /\ q \in Req
           /\ UNCHANGED res /\ Redirected(q)
    BY <1>11 DEF Takes
  <2> HIDE DEF q
  <2>3. ASSUME NEW r \in Req, Held(Queues, r), r # q
        PROVE  Held(Queues', r)
    BY <1>0, <2>1, <2>3, PopElements, HeldAfterPop, ReopenedKeeps DEF q
  <2>4. OnlyClustersRedirect'
    BY <1>1, <1>10, <2>2 DEF OnlyClustersRedirect
  <2>5. ASSUME NEW r \in Req,
               delivered'[r], res'[r] = NoRes, Live(r[1])', redirects'[r] = 0
        PROVE  Held(Queues', r)
    <3>1. redirects[r] = 0 /\ Live(r[1]) /\ delivered[r]
      BY <1>5, <1>10, <2>1, <2>2, <2>5
    <3>2. CASE q \in Req /\ \E a \in Answer : AnsweredWith(q, a)
      <4>1. PICK a \in Answer : res' = [res EXCEPT ![q] = a]
        BY <3>2 DEF AnsweredWith
      <4>2. a # NoRes
        BY DEF Answer, NoRes
      <4>3. r # q
        BY <1>0, <2>5, <3>2, <4>1, <4>2 DEF TypeOK
      <4>4. res[r] = NoRes
        BY <1>0, <2>5, <4>1, <4>3 DEF TypeOK
      <4> QED BY <1>1, <2>3, <3>1, <4>3, <4>4
    <3>3. CASE UNCHANGED res /\ (q \in Inner \/ ~Live(q[1]))
      <4>1. r # q
        BY <3>1, <3>3, ReqNotInner
      <4> QED BY <1>1, <2>3, <2>5, <3>1, <3>3, <4>1
    <3>4. CASE q \in Req /\ UNCHANGED res /\ Redirected(q)
      <4>1. r # q
        BY <1>10, <2>5, <3>4
      <4> QED BY <1>1, <2>3, <2>5, <3>1, <3>4, <4>1
    <3> QED BY <2>2, <3>2, <3>3, <3>4
  <2> QED BY <1>5, <2>1, <2>4, <2>5
<1>12. ASSUME NEW s \in Server, NEW t \in Server, Redirects(s, t)
       PROVE  Goal
  <2> DEFINE q == Head(Queues[s])
  <2>1. AllSeenSame /\ Queues[s] # <<>> /\ UNCHANGED <<res, delivered>>
          /\ q \in Req /\ Redirected(q)
    BY <1>12 DEF Redirects
  <2>2. PICK Q \in Reopened(Pop(Queues, s)), p \in {<<q>>, <<Asking, q>>} :
          Queues' = Put(Q, t, p)
    BY <1>12 DEF Redirects
  <2> HIDE DEF q
  <2>3. Q \in QueueType /\ \A r \in Req : Held(Queues, r) /\ r # q => Held(Q, r)
    BY <1>0, <2>1, PopElements, HeldAfterPop, ReopenedKeeps DEF q
  <2>4. p \in Seq(Item)
    BY <2>1, PutRequest
  <2>5. \A r \in Req : Held(Queues, r) /\ r # q => Held(Queues', r)
    BY <2>2, <2>3, <2>4, HeldAfterPut
  <2>6. OnlyClustersRedirect' /\ \A r \in Req : redirects'[r] = 0 => redirects[r] = 0 /\ r # q
    BY <1>10, <2>1
  <2> QED BY <1>1, <1>5, <2>1, <2>5, <2>6
<1> QED BY <1>4, <1>6, <1>8, <1>9, <1>11, <1>12, StepKinds

\* On every reachable state the requests that were passed on are kept.
THEOREM KeptInvariant == Spec => []KeptInv
<1>1. Init => KeptInv
  BY DEF Init, KeptInv, NothingEarly, PassedOnHeld, OnlyClustersRedirect
<1>2. LinkInv /\ QueueInv /\ KeptInv /\ [Next]_vars => KeptInv'
  BY StepKeepsKept
<1> QED BY <1>1, <1>2, LinkInvariant, QueueInvariant, PTL DEF Spec

\* What is queued is queued on an open connection.
LEMMA HeldOnOpen ==
    ASSUME LinkInv, NEW r, Held(Queues, r)
    PROVE  \E s \in Server : Open(sc[s]) /\ \E i \in 1..Len(Queue(s)) : Queue(s)[i] = r
<1>1. PICK s \in Server : \E i \in 1..Len(Queue(s)) : Queue(s)[i] = r
  BY DEF Held, Queues
<1>2. Open(sc[s])
  <2> SUFFICES ASSUME ~Open(sc[s]) PROVE FALSE
    OBVIOUS
  <2>1. Queue(s) = <<>>
    BY ClosedQueue DEF Queue, QueueOf
  <2>2. Len(Queue(s)) = 0
    BY <2>1
  <2> QED BY <1>1, <2>2
<1> QED BY <1>1, <1>2

\* A request that was passed on waits on an open connection until it is answered
\* or its client has gone, unless a cluster has sent it on: only redirect() may
\* forget a request.
KeptUnlessRedirected ==
    \A r \in Req :
      delivered[r] /\ ~Done(r) /\ Live(r[1]) /\ redirects[r] = 0 =>
        \E s \in Server : Open(sc[s]) /\ \E i \in 1..Len(Queue(s)) : Queue(s)[i] = r

\* Only redirect() may forget a request.
THEOREM KeptUnlessRedirectedAlways == Spec => []KeptUnlessRedirected
<1>1. LinkInv /\ KeptInv => KeptUnlessRedirected
  BY HeldOnOpen DEF KeptInv, PassedOnHeld, KeptUnlessRedirected
<1> QED BY <1>1, LinkInvariant, KeptInvariant, PTL

\* With standalone servers no request is forgotten: one that was passed on waits
\* on an open connection until it is answered or its client has gone.
THEOREM NotLostAlways ==
    ASSUME ~Cluster
    PROVE  Spec => []NotLost
<1>1. LinkInv /\ KeptInv => NotLost
  BY HeldOnOpen DEF KeptInv, PassedOnHeld, OnlyClustersRedirect, NotLost
<1> QED BY <1>1, LinkInvariant, KeptInvariant, PTL


-----------------------------------------------------------------------------
(* The handler implements ProxyService.                                    *)

\* Client c can be served.
Served(c) == cc[c].good /\ cc[c].fd # "closed"

\* A closed client waits for nothing.
ClosedEmpty == \A c \in Client : cc[c].fd = "closed" => cc[c].requests = <<>>

\* A step that changes nothing of the clients and no answer is not seen.
LEMMA NothingSeen ==
    ASSUME AllSeenSame, UNCHANGED res
    PROVE  UNCHANGED Service!svars
BY DEF AllSeenSame, SeenSame, Service!svars

\* A request is read.
LEMMA AskSeen ==
    ASSUME TypeOK, Placed, NEW c \in Client, Asks(c),
           UNCHANGED res \/ \E a \in Answer : AnsweredWith(NextReq(c), a)
    PROVE  Service!Ask(c)
<1> DEFINE r == NextReq(c)
<1>1. /\ Served(c) /\ cc[c].parsed < MaxReq /\ out' = out
      /\ cc'[c].parsed = cc[c].parsed + 1
      /\ \A d \in Client \ {c} : cc'[d].parsed = cc[d].parsed
      /\ \A d \in Client : cc'[d].good = cc[d].good /\ cc'[d].fd = cc[d].fd
  BY DEF Asks, CanRead, Live, Served, SeenSame
<1>2. r = <<c, cc[c].parsed + 1>> /\ r \in Req
  BY DEF NextReq, Asks
<1>3. res[r] = NoRes
  <2>1. cc[c].parsed \in Nat
    BY ParsedIsNat
  <2>2. ~(r[2] <= cc[r[1]].parsed)
    BY <1>2, <2>1
  <2> QED BY <1>2, <2>2 DEF Placed, Done
<1>4. \E a \in {b \in Answer : b.of = r} \cup {NoRes} : res' = [res EXCEPT ![r] = a]
  <2>1. CASE UNCHANGED res
    <3>1. res' = [res EXCEPT ![r] = NoRes]
      BY <1>2, <1>3, <2>1 DEF TypeOK
    <3> QED BY <3>1
  <2>2. CASE \E a \in Answer : AnsweredWith(r, a)
    BY <2>2 DEF AnsweredWith
  <2> QED BY <2>1, <2>2
<1> HIDE DEF r
<1> QED BY <1>1, <1>2, <1>4 DEF Service!Ask, Service!AnswerFor, Served

\* A request that was read is answered.
LEMMA SettleSeen ==
    ASSUME TypeOK, AllSeenSame, NEW q \in Req, Live(q[1]), res[q] = NoRes,
           q[2] <= cc[q[1]].parsed, NEW a \in Answer, AnsweredWith(q, a)
    PROVE  Service!Settle(q)
<1>1. q[1] \in Client
  BY DEF Req
<1>2. Served(q[1])
  BY DEF Live, Served
<1>3. out' = out /\ \A d \in Client : /\ cc'[d].parsed = cc[d].parsed
                                      /\ cc'[d].good = cc[d].good
                                      /\ cc'[d].fd = cc[d].fd
  BY DEF AllSeenSame, SeenSame
<1> QED BY <1>1, <1>2, <1>3 DEF Service!Settle, Service!AnswerFor, AnsweredWith, Served

\* A step of client c alone that writes it the answers of its next k requests
\* and may end its being served.
LEMMA ShowSeen ==
    ASSUME NEW c \in Client, NEW k \in 0..cc[c].parsed - Len(out[c]), Served(c),
           UNCHANGED res,
           \A d \in Client : cc'[d].parsed = cc[d].parsed,
           \A d \in Client \ {c} : Served(d)' = Served(d),
           Served(c)' = TRUE \/ Served(c)' = FALSE,
           \A i \in 1..k : res[<<c, Len(out[c]) + i>>] # NoRes,
           Len(out[c]) \in Nat,
           out' = [out EXCEPT ![c] = @ \o [i \in 1..k |-> res[<<c, Len(out[c]) + i>>]]]
    PROVE  Service!Show(c)
<1> DEFINE m == Len(out[c])
           old == [d \in Client |-> cc[d].good /\ cc[d].fd # "closed"]
           new == [d \in Client |-> cc'[d].good /\ cc'[d].fd # "closed"]
<1>1. \A i \in m + 1..m + k : res[<<c, i>>] # NoRes
  <2> SUFFICES ASSUME NEW i \in m + 1..m + k PROVE res[<<c, i>>] # NoRes
    OBVIOUS
  <2>1. i - m \in 1..k /\ m + (i - m) = i
    OBVIOUS
  <2> QED BY <2>1
<1>2. new \in {old, [old EXCEPT ![c] = FALSE]}
  BY DEF Served
<1> HIDE DEF m, new, old
<1> QED BY <1>1, <1>2 DEF Service!Show, Served, m, old, new


\* What is written to a client is the answers of its oldest requests.
LEMMA WritingSeen ==
    ASSUME TypeOK, OrderInv, ClosedEmpty, PostAccept, UNCHANGED res
    PROVE  Service!Next \/ UNCHANGED Service!svars
<1>1. PICK c \in Client : \E j \in 0..Len(cc[c].requests) : Written(c, j)
  BY PostAcceptWrites
<1>2. PICK k \in 0..Len(cc[c].requests) : Written(c, k)
  BY <1>1
<1> DEFINE m == Len(out[c])
           n == Len(cc[c].requests)
<1>3. cc[c].requests \in Seq(Req) /\ out[c] \in Seq(Answer) /\ cc[c].parsed \in Nat
        /\ cc[c].fd \in {"none", "open", "closed"}
  BY ParsedIsNat DEF TypeOK, AcceptConn
<1>4. m \in Nat /\ n \in Nat
  BY <1>3, LenProperties
<1>5. /\ \A i \in 1..k : Done(cc[c].requests[i])
      /\ out' = [out EXCEPT ![c] = @ \o [i \in 1..k |-> res[cc[c].requests[i]]]]
      /\ k > 0 => cc[c].good
      /\ \A d \in Client \ {c} : cc'[d] = cc[d]
      /\ cc'[c].parsed = cc[c].parsed
      /\ cc'[c].good => cc[c].good
      /\ cc'[c].fd = "closed" \/ cc'[c].fd = cc[c].fd
      /\ cc[c].fd = "closed" => cc'[c].fd = "closed"
  BY <1>2 DEF Written
<1>6. /\ cc[c].fd # "closed" => n + m = cc[c].parsed
      /\ \A i \in 1..n : cc[c].requests[i] = <<c, m + i>>
  BY DEF OrderInv, Pipelined
<1>7. \A i \in 1..k : cc[c].requests[i] = <<c, m + i>>
  BY <1>4, <1>6
<1>8. CASE Served(c)
  <2>1. k \in 0..cc[c].parsed - m
    <3> DEFINE p == cc[c].parsed
    <3>1. p \in Nat /\ n + m = p /\ k \in 0..n
      BY <1>3, <1>6, <1>8 DEF Served
    <3> HIDE DEF p, m, n
    <3>2. k \in 0..p - m
      BY <1>4, <3>1
    <3> QED BY <3>2 DEF p
  <2>2. \A i \in 1..k : res[<<c, m + i>>] # NoRes
    BY <1>5, <1>7 DEF Done
  <2>3. [i \in 1..k |-> res[cc[c].requests[i]]] = [i \in 1..k |-> res[<<c, m + i>>]]
    BY <1>7
  <2>4. out' = [out EXCEPT ![c] = @ \o [i \in 1..k |-> res[<<c, m + i>>]]]
    BY <1>5, <2>3
  <2>5. \A d \in Client : cc'[d].parsed = cc[d].parsed
    BY <1>5
  <2>6. \A d \in Client \ {c} : Served(d)' = Served(d)
    BY <1>5 DEF Served
  <2>7. Served(c)' = TRUE \/ Served(c)' = FALSE
    BY DEF Served
  <2>8. Service!Show(c)
    BY <1>4, <1>8, <2>1, <2>2, <2>4, <2>5, <2>6, <2>7, ShowSeen
  <2> QED BY <2>8 DEF Service!Next
<1>9. CASE ~Served(c)
  <2>1. k = 0
    <3>1. cc[c].fd = "closed" => Len(cc[c].requests) = 0
      BY EmptySeq DEF ClosedEmpty
    <3> QED BY <1>4, <1>5, <1>9, <3>1 DEF Served
  <2>2. out' = out
    <3>1. out[c] \o [i \in 1..k |-> res[cc[c].requests[i]]] = out[c]
      <4>1. [i \in 1..k |-> res[cc[c].requests[i]]] = <<>>
        BY <2>1
      <4> QED BY <1>3, <4>1, ConcatEmptySeq
    <3>2. out' = [out EXCEPT ![c] = out[c]]
      BY <1>5, <3>1
    <3> QED BY <3>2 DEF TypeOK
  <2>3. \A d \in Client : cc'[d].parsed = cc[d].parsed
    BY <1>5
  <2>4. \A d \in Client : (cc'[d].good /\ cc'[d].fd # "closed") = (cc[d].good /\ cc[d].fd # "closed")
    BY <1>5, <1>9 DEF Served
  <2> QED BY <2>2, <2>3, <2>4 DEF Service!svars
<1> QED BY <1>8, <1>9

\* Accepting a client is not seen; one to which something went wrong is not
\* served any more.
LEMMA ComingAndGoingSeen ==
    ASSUME TypeOK, OrderInv, NEW c \in Client, Accept(c) \/ ClientError(c)
    PROVE  Service!Next \/ UNCHANGED Service!svars
<1>1. cc[c] \in AcceptConn /\ UNCHANGED <<res, out>>
  BY DEF TypeOK, Accept, ClientError
<1>2. CASE Accept(c)
  <2>1. cc[c].fd = "none" /\ cc' = [cc EXCEPT ![c] = [cc[c] EXCEPT !.fd = "open"]]
    BY <1>2 DEF Accept, TypeOK
  <2>2. \A d \in Client : /\ cc'[d].parsed = cc[d].parsed
                          /\ cc'[d].good = cc[d].good
                          /\ cc'[d].fd # "closed" <=> cc[d].fd # "closed"
    BY <1>1, <2>1 DEF TypeOK, AcceptConn
  <2> QED BY <1>1, <2>2 DEF Service!svars
<1>3. CASE ClientError(c)
  <2> DEFINE x == [cc[c] EXCEPT !.good = FALSE]
             m == Len(out[c])
  <2>1. x \in AcceptConn /\ ~x.good /\ x.parsed = cc[c].parsed
    BY <1>1 DEF AcceptConn
  <2>2. cc' = [cc EXCEPT ![c] = AddPost(x, "Error")] /\ Live(c)
    BY <1>3 DEF ClientError, TypeOK
  <2> HIDE DEF x
  <2>3. ~cc'[c].good /\ cc'[c].parsed = cc[c].parsed
    BY <2>1, <2>2, AddPostClient DEF TypeOK, Event
  <2>4. \A d \in Client \ {c} : cc'[d] = cc[d]
    BY <2>2 DEF TypeOK
  <2>5. Served(c) /\ Served(c)' = FALSE
    BY <2>2, <2>3 DEF Served, Live
  <2>6. cc[c].requests \in Seq(Req) /\ out[c] \in Seq(Answer) /\ cc[c].parsed \in Nat
    BY ParsedIsNat DEF TypeOK, AcceptConn
  <2>7. m \in Nat /\ 0 \in 0..cc[c].parsed - m
    <3>1. Len(cc[c].requests) \in Nat /\ m \in Nat
      BY <2>6, LenProperties
    <3> DEFINE n == Len(cc[c].requests)
               p == cc[c].parsed
    <3>2. n + m = p /\ p \in Nat
      BY <2>5, <2>6 DEF OrderInv, Pipelined, Served
    <3> HIDE DEF p, m, n
    <3>3. 0 \in 0..p - m
      BY <3>1, <3>2 DEF n
    <3> QED BY <3>1, <3>3 DEF p
  <2> DEFINE k == 0
  <2>8. out' = [out EXCEPT ![c] = @ \o [i \in 1..k |-> res[<<c, m + i>>]]]
    <3>1. [i \in 1..0 |-> res[<<c, m + i>>]] = <<>>
      OBVIOUS
    <3>2. out[c] \o [i \in 1..0 |-> res[<<c, m + i>>]] = out[c]
      BY <2>6, <3>1, ConcatEmptySeq
    <3> QED BY <1>1, <3>2 DEF TypeOK
  <2>9. /\ \A d \in Client : cc'[d].parsed = cc[d].parsed
        /\ \A d \in Client \ {c} : Served(d)' = Served(d)
    BY <2>3, <2>4 DEF Served
  <2>10. \A i \in 1..k : res[<<c, m + i>>] # NoRes
    OBVIOUS
  <2>11. k \in 0..cc[c].parsed - m
    BY <2>7
  <2> HIDE DEF k
  <2>12. Service!Show(c)
    BY <1>1, <2>5, <2>7, <2>8, <2>9, <2>10, <2>11, ShowSeen
  <2> QED BY <2>12 DEF Service!Next
<1> QED BY <1>2, <1>3

\* A step leaves closed clients without requests.
LEMMA StepKeepsClosed ==
    ASSUME LinkInv, ClosedEmpty, [Next]_vars
    PROVE  ClosedEmpty'
<1>0. TypeOK
  BY DEF LinkInv
<1>1. CASE AllSeenSame
  BY <1>1 DEF AllSeenSame, SeenSame, ClosedEmpty
<1>2. ASSUME NEW c \in Client, Asks(c)
      PROVE  ClosedEmpty'
  <2>1. cc'[c].fd = "open"
    BY <1>2 DEF Asks, CanRead, Live
  <2>2. \A d \in Client \ {c} : SeenSame(d)
    BY <1>2 DEF Asks
  <2> QED BY <2>1, <2>2 DEF ClosedEmpty, SeenSame
<1>3. ASSUME NEW c \in Client, Accept(c) \/ ClientError(c)
      PROVE  ClosedEmpty'
  <2>1. cc[c] \in AcceptConn /\ \A d \in Client \ {c} : cc'[d] = cc[d]
    BY <1>0, <1>3 DEF TypeOK, Accept, ClientError
  <2>2. cc'[c].fd = "open"
    <3>1. CASE Accept(c)
      BY <1>0, <2>1, <3>1 DEF Accept, TypeOK, AcceptConn
    <3>2. CASE ClientError(c)
      <4> DEFINE x == [cc[c] EXCEPT !.good = FALSE]
      <4>1. x \in AcceptConn /\ x.fd = "open"
        BY <2>1, <3>2 DEF AcceptConn, ClientError, Live
      <4>2. cc' = [cc EXCEPT ![c] = AddPost(x, "Error")]
        BY <1>0, <3>2 DEF ClientError, TypeOK
      <4> HIDE DEF x
      <4> QED BY <1>0, <4>1, <4>2, AddPostClient DEF TypeOK, Event
    <3> QED BY <1>3, <3>1, <3>2
  <2> QED BY <2>1, <2>2 DEF ClosedEmpty
<1>4. CASE PostAccept
  <2>1. PICK c \in Client : \E k \in 0..Len(cc[c].requests) : Written(c, k)
    BY <1>0, <1>4, PostAcceptWrites
  <2>2. PICK k \in 0..Len(cc[c].requests) : Written(c, k)
    BY <2>1
  <2>3. \A d \in Client \ {c} : cc'[d] = cc[d]
    BY <2>2 DEF Written
  <2>4. CASE cc'[c].requests = <<>>
    BY <2>3, <2>4 DEF ClosedEmpty
  <2>5. CASE cc'[c].fd = cc[c].fd /\ cc'[c].requests = cc[c].requests
    BY <2>3, <2>5 DEF ClosedEmpty
  <2>6. CASE cc'[c].fd = cc[c].fd /\ cc'[c].requests = SubSeq(cc[c].requests, k + 1, Len(cc[c].requests))
    <3>1. ASSUME cc[c].fd = "closed"
          PROVE  cc'[c].requests = <<>>
      <4>1. cc[c].requests = <<>> /\ Len(<<>>) = 0 /\ k = 0
        BY <3>1 DEF ClosedEmpty
      <4>2. SubSeq(<<>>, 0 + 1, 0) = <<>>
        OBVIOUS
      <4> QED BY <2>6, <4>1, <4>2
    <3> QED BY <2>3, <2>6, <3>1 DEF ClosedEmpty
  <2> QED BY <2>2, <2>4, <2>5, <2>6 DEF Written
<1> QED BY <1>1, <1>2, <1>3, <1>4, StepKinds
     DEF ClientOnly, Quiet, AsksOnly, Forwards, Takes, Redirects

\* What a step takes from a connection was read from its client and has no
\* answer.
LEMMA TakenWaits ==
    ASSUME LinkInv, QueueInv, NEW s \in Server, Queues[s] # <<>>, Head(Queues[s]) \in Req
    PROVE  LET q == Head(Queues[s]) IN res[q] = NoRes /\ q[2] <= cc[q[1]].parsed
<1>1. Queues \in QueueType /\ Queues[s] \in Seq(Item)
  BY QueuesAre DEF LinkInv, QueueType
<1>2. Held(Queues, Head(Queues[s]))
  BY <1>1, HeldAfterPop DEF QueueInv
<1> QED BY <1>2 DEF QueueInv, Undone, Placed, Done

\* Every step is a step of ProxyService or is not seen.
LEMMA StepServes ==
    ASSUME LinkInv, OrderInv, QueueInv, ClosedEmpty, [Next]_vars
    PROVE  [Service!Next]_(Service!svars)
<1>0. TypeOK /\ Placed
  BY DEF LinkInv, QueueInv
<1>1. CASE ClientOnly
  BY <1>0, <1>1, WritingSeen, ComingAndGoingSeen DEF ClientOnly
<1>2. CASE Quiet
  BY <1>2, NothingSeen DEF Quiet
<1>3. ASSUME NEW c \in Client, AsksOnly(c) \/ \E s \in Server : Forwards(c, s)
      PROVE  Service!Next
  <2>1. Asks(c) /\ (UNCHANGED res \/ \E a \in Answer : AnsweredWith(NextReq(c), a))
    BY <1>3 DEF AsksOnly, Forwards
  <2>2. Service!Ask(c)
    BY <1>0, <2>1, AskSeen
  <2> QED BY <2>2 DEF Service!Next
<1>4. ASSUME NEW s \in Server, Takes(s)
      PROVE  [Service!Next]_(Service!svars)
  <2> DEFINE q == Head(Queues[s])
  <2>1. AllSeenSame /\ Queues[s] # <<>>
    BY <1>4 DEF Takes
  <2>2. CASE UNCHANGED res
    BY <2>1, <2>2, NothingSeen
  <2>3. CASE q \in Req /\ Live(q[1]) /\ \E a \in Answer : AnsweredWith(q, a)
    <3>1. res[q] = NoRes /\ q[2] <= cc[q[1]].parsed
      BY <2>1, <2>3, TakenWaits
    <3> HIDE DEF q
    <3>2. Service!Settle(q)
      BY <1>0, <2>1, <2>3, <3>1, SettleSeen
    <3>3. q[1] \in Client /\ q \in {q[1]} \X (1..MaxReq)
      BY <2>3 DEF Req
    <3> QED BY <3>2, <3>3 DEF Service!Next, Service!Request
  <2> QED BY <1>4, <2>2, <2>3 DEF Takes
<1>5. ASSUME NEW s \in Server, NEW t \in Server, Redirects(s, t)
      PROVE  UNCHANGED Service!svars
  BY <1>5, NothingSeen DEF Redirects
<1> QED BY <1>1, <1>2, <1>3, <1>4, <1>5, StepKinds

\* A closed client waits for nothing.
THEOREM ClosedClientsEmpty == Spec => []ClosedEmpty
<1>1. Init => ClosedEmpty
  BY DEF Init, ClosedEmpty
<1>2. LinkInv /\ ClosedEmpty /\ [Next]_vars => ClosedEmpty'
  BY StepKeepsClosed
<1> QED BY <1>1, <1>2, LinkInvariant, PTL DEF Spec

\* The handler implements ProxyService: whatever the servers, the network and
\* the timeouts do to the connections, each client is shown one answer for each
\* of its requests, in their order, an answer is given once and only to a
\* request that was read, and a client that has gone is given nothing more.
THEOREM HandlerServes == Spec => ServiceSpec
<1>1. Init => Service!Init
  <2> SUFFICES ASSUME Init PROVE Service!Init
    OBVIOUS
  <2>1. \A c \in Client : cc[c].parsed = 0 /\ (cc[c].good /\ cc[c].fd # "closed") = TRUE
    BY DEF Init
  <2>2. res = [r \in Client \X (1..MaxReq) |-> NoRes] /\ out = [c \in Client |-> <<>>]
    BY DEF Init, Req
  <2>3. [c \in Client |-> cc[c].parsed] = [c \in Client |-> 0]
    BY <2>1
  <2>4. [c \in Client |-> cc[c].good /\ cc[c].fd # "closed"] = [c \in Client |-> TRUE]
    BY <2>1
  <2> QED BY <2>2, <2>3, <2>4 DEF Service!Init
<1>2. LinkInv /\ OrderInv /\ QueueInv /\ ClosedEmpty /\ [Next]_vars =>
        [Service!Next]_(Service!svars)
  BY StepServes
<1> QED
  BY <1>1, <1>2, LinkInvariant, OrderInvariant, QueueInvariant, ClosedClientsEmpty, PTL
     DEF Spec, ServiceSpec, Service!Spec

-----------------------------------------------------------------------------
(* No wakeup is lost.                                                      *)

\* x is in list q.
In(q, x) == \E i \in 1..Len(q) : q[i] = x

\* A connection that is to be closed is open and has failed; an attempt to
\* connect is waited for with epoll; what is to be sent is waited for with
\* epoll or announced.
Ready(x) ==
    /\ "Error" \in x.post => Open(x) /\ x.status # "Normal"
    /\ x.link = "connecting" => x.writable
    /\ Open(x) /\ x.status = "Normal" /\ x.send # <<>> => x.writable \/ x.post # {}

\* Each connection with post events is in its post list; the one that is being
\* closed has none left.
ServersAwake ==
    /\ \A s \in Server : Ready(sc[s]) /\ (sc[s].post # {} => In(postS, s))
    /\ pc = "closing" => sc[cur].post = {}

\* Client c has an answer that is to be written next.
Due(c) == Live(c) /\ cc[c].requests # <<>> /\ Done(Head(cc[c].requests))

ClientsAwake ==
    \A c \in Client :
      /\ cc[c].post # {} => In(postA, c)
      /\ Due(c) => cc[c].writable \/ "Write" \in cc[c].post

\* What stays in a list that grows at its end and shrinks at its front.
LEMMA InAppended ==
    ASSUME NEW S, NEW q \in Seq(S), NEW y \in S
    PROVE  /\ In(Append(q, y), y)
           /\ \A x : In(q, x) => In(Append(q, y), x)
<1>1. /\ Len(q) \in Nat /\ Len(Append(q, y)) = Len(q) + 1
      /\ Append(q, y)[Len(q) + 1] = y
      /\ \A i \in 1..Len(q) : Append(q, y)[i] = q[i]
  BY AppendProperties, LenProperties
<1>2. Len(q) + 1 \in 1..Len(q) + 1 /\ \A i \in 1..Len(q) : i \in 1..Len(q) + 1
  BY <1>1
<1> QED BY <1>1, <1>2 DEF In

\* All but the front of a list stays in it when the front is taken.
LEMMA InTail ==
    ASSUME NEW S, NEW q \in Seq(S), q # <<>>
    PROVE  \A x : In(q, x) /\ x # Head(q) => In(Tail(q), x)
<1> SUFFICES ASSUME NEW x, NEW i \in 1..Len(q), q[i] = x, x # Head(q)
             PROVE  In(Tail(q), x)
  BY DEF In
<1>1. /\ Len(Tail(q)) = Len(q) - 1 /\ Len(q) \in Nat /\ Head(q) = q[1]
      /\ \A j \in 1..Len(Tail(q)) : Tail(q)[j] = q[j + 1]
  BY HeadTailProperties, LenProperties
<1>2. i # 1 /\ i - 1 \in 1..Len(q) - 1 /\ (i - 1) + 1 = i
  BY <1>1
<1> QED BY <1>1, <1>2 DEF In

\* Sending makes an event of it.
LEMMA SendReady ==
    ASSUME NEW x \in ConnectConn, Ready(x), NEW q \in Seq(Item)
    PROVE  Ready(Send(x, q))
<1>1. x.send \o q \in Seq(Item)
  BY ConcatProperties DEF ConnectConn, Item
<1> DEFINE z == x.send \o q
<1>2. Send(x, q) = AddPost([x EXCEPT !.send = z], "Write")
  BY DEF Send
<1> HIDE DEF z
<1>3. /\ Send(x, q).link = x.link /\ Send(x, q).status = x.status
      /\ Send(x, q).writable = x.writable /\ Send(x, q).post = x.post \cup {"Write"}
  BY <1>2 DEF AddPost, ConnectConn
<1> QED BY <1>3 DEF Ready, Open

\* A write that does not finish waits for epoll.
LEMMA FlushedReady ==
    ASSUME NEW x \in ConnectConn, NEW k \in 0..Len(x.send), x.post = {},
           x.link = "connected"
    PROVE  Ready(Flushed(x, k))
<1>1. x.send \in Seq(Item) /\ Len(x.send) \in Nat
  BY LenProperties DEF ConnectConn, Item
<1> DEFINE more == k < Len(x.send)
           rest == SubSeq(x.send, k + 1, Len(x.send))
           moved == x.sent \o SubSeq(x.send, 1, k)
           y == [x EXCEPT !.send = rest, !.sent = moved, !.writable = more,
                          !.wait = TRUE]
<1>2. Flushed(x, k) = y
  BY Zenon DEF Flushed
<1>3. rest # <<>> => more
  <2>1. CASE k < Len(x.send)
    BY <2>1
  <2>2. CASE ~(k < Len(x.send))
    <3>1. k + 1 > Len(x.send)
      BY <1>1, <2>2
    <3>2. rest = <<>>
      BY <1>1, <3>1, SubSeqEmpty
    <3> QED BY <3>2
  <2> QED BY <2>1, <2>2
<1> HIDE DEF more, rest, moved
<1>4. y.link = "connected" /\ y.post = {} /\ y.send = rest /\ y.writable = more
  BY DEF ConnectConn
<1> QED BY <1>2, <1>3, <1>4 DEF Ready

\* A connection that is opened is waited for.
LEMMA OpenedReady ==
    ASSUME NEW x \in ConnectConn, Ready(x), ~Open(x), NEW y \in Opened(x)
    PROVE  Ready(y)
<1>1. Handshake \in Seq(Item)
  <2>1. {Setup, PingServ} \subseteq Item
    BY DEF Item, Inner
  <2> QED BY <2>1, PipelineAssumption, SeqMonotonic
<1>2. "Error" \notin x.post
  BY DEF Ready
<1>3. CASE y = [x EXCEPT !.link = "closed", !.status = "None", !.writable = FALSE]
  <2>1. y.link = "closed" /\ y.post = x.post
    BY <1>3 DEF ConnectConn
  <2> QED BY <1>2, <2>1 DEF Ready, Open
<1>4. ASSUME NEW l \in {"connecting", "connected"},
             y = Send([x EXCEPT !.link = l, !.status = "Normal", !.writable = TRUE],
                      Handshake)
      PROVE  Ready(y)
  <2> DEFINE z == [x EXCEPT !.link = l, !.status = "Normal", !.writable = TRUE]
  <2>1. z \in ConnectConn /\ z.writable = TRUE /\ z.post = x.post
    BY DEF ConnectConn
  <2> HIDE DEF z
  <2>2. Ready(z)
    BY <1>2, <2>1 DEF Ready
  <2>3. y = Send(z, Handshake)
    BY <1>4 DEF z
  <2> QED BY <1>1, <2>1, <2>2, <2>3, SendReady
<1> QED BY <1>3, <1>4 DEF Opened

\* So is one that is got for a request.
LEMMA SharedReady ==
    ASSUME NEW x \in ConnectConn, Ready(x), NEW failed \in BOOLEAN,
           NEW g \in GetShareConnection(x, failed)
    PROVE  Ready(g.conn)
<1>1. CASE Open(x) \/ (x.link = "closed" /\ failed)
  <2>1. g.conn = x
    BY <1>1 DEF GetShareConnection
  <2> QED BY <2>1
<1>2. CASE ~Open(x) /\ ~(x.link = "closed" /\ failed)
  <2>1. PICK y \in Opened(x) : g = [conn |-> y, got |-> Open(y) /\ ~failed]
    BY <1>2 DEF GetShareConnection
  <2>2. g.conn = y
    BY <2>1
  <2> QED BY <2>2, <1>2, OpenedReady
<1> QED BY <1>1, <1>2

\* Connections change, and of the post events only those of connection t, which
\* is entered in the list.
LEMMA ServerEntered ==
    ASSUME TypeOK, ServersAwake, NEW t \in Server,
           \A u \in Server : Ready(sc'[u]),
           \A u \in Server \ {t} : sc'[u].post = sc[u].post,
           EnterPostS(t), pc' # "closing"
    PROVE  ServersAwake'
<1>1. postS \in Seq(Server)
  BY DEF TypeOK
<1>2. sc'[t].post # {} => In(postS', t)
  BY <1>1, InAppended DEF EnterPostS, ServersAwake
<1>3. \A u \in Server : In(postS, u) => In(postS', u)
  BY <1>1, InAppended DEF EnterPostS
<1>4. \A u \in Server : sc'[u].post # {} => In(postS', u)
  BY <1>2, <1>3 DEF ServersAwake
<1> QED BY <1>4 DEF ServersAwake, Ready, In, Open

\* One connection changes.
LEMMA ServerChanged ==
    ASSUME TypeOK, ServersAwake, NEW s \in Server, NEW y, Ready(y),
           sc' = [sc EXCEPT ![s] = y], EnterPostS(s), pc = "wait" \/ pc = "checkPool" \/ pc = "serverTimeout",
           pc' = pc
    PROVE  ServersAwake'
<1>1. sc'[s] = y /\ \A u \in Server \ {s} : sc'[u] = sc[u]
  BY DEF TypeOK
<1>2. \A u \in Server : Ready(sc'[u])
  BY <1>1 DEF ServersAwake
<1> QED BY <1>1, <1>2, ServerEntered

\* A response is read and handled.
LEMMA ReplyKeepsServers ==
    ASSUME LinkInv, ServersAwake, NEW s \in Server,
           \/ \E ok \in BOOLEAN : ReadInnerReply(s, ok)
           \/ ReadLateReply(s)
           \/ ReadReply(s)
           \/ \E kind \in {"moved", "ask"}, t \in Server : ReadRedirection(s, kind, t)
    PROVE  ServersAwake'
<1> DEFINE x == [sc[s] EXCEPT !.sent = Tail(@)]
           Q == [sc EXCEPT ![s] = x]
<1>1. TypeOK /\ CanReadReply(s) /\ sc[s] \in ConnectConn /\ pc' = pc /\ pc = "wait"
  BY DEF LinkInv, TypeOK, ReadInnerReply, ReadLateReply, ReadReply, ReadRedirection,
         CanReadReply, loop
<1>2. Tail(sc[s].sent) \in Seq(Item) /\ Open(sc[s])
  BY ReplyMatches, <1>1
<1>3. /\ x \in ConnectConn /\ x.link = sc[s].link /\ x.status = sc[s].status
      /\ x.post = sc[s].post /\ x.writable = sc[s].writable /\ x.send = sc[s].send
  BY <1>1, <1>2 DEF ConnectConn, Item
<1> HIDE DEF x
<1>4. Ready(x)
  BY <1>3 DEF ServersAwake, Ready, Open
<1>5. Q \in [Server -> ConnectConn]
  BY <1>1, <1>3 DEF TypeOK
<1>6. \A u \in Server : Ready(Q[u]) /\ Q[u].post = sc[u].post
  BY <1>1, <1>3, <1>4 DEF TypeOK, ServersAwake
<1>7. ASSUME NEW ok \in BOOLEAN, ReadInnerReply(s, ok)
      PROVE  ServersAwake'
  <2> DEFINE z == [x EXCEPT !.status = "LogicError"]
             y == AddPost(z, "Error")
  <2>1. z \in ConnectConn /\ z.link = x.link /\ z.status = "LogicError"
          /\ z.writable = x.writable /\ z.post = x.post
    BY <1>3 DEF ConnectConn
  <2> HIDE DEF z
  <2>2. y.link = z.link /\ y.status = z.status /\ y.writable = z.writable
          /\ y.post = z.post \cup {"Error"}
    BY <2>1 DEF AddPost, ConnectConn
  <2> HIDE DEF y
  <2>3. Ready(y)
    BY <1>2, <1>3, <1>4, <2>1, <2>2 DEF Ready, Open
  <2>4. EnterPostS(s) /\ (sc' = [sc EXCEPT ![s] = x] \/ sc' = [sc EXCEPT ![s] = y])
    BY <1>7 DEF ReadInnerReply, x, y, z
  <2> QED BY <1>1, <1>4, <2>3, <2>4, ServerChanged
<1>8. CASE ReadLateReply(s) \/ ReadReply(s)
  <2>1. sc' = Q /\ postS' = postS
    BY <1>8 DEF ReadLateReply, ReadReply, x
  <2>2. EnterPostS(s)
    BY <1>6, <2>1 DEF EnterPostS
  <2> HIDE DEF Q
  <2> QED BY <1>1, <1>6, <2>1, <2>2, ServerEntered
<1>9. ASSUME NEW kind \in {"moved", "ask"}, NEW t \in Server, ReadRedirection(s, kind, t)
      PROVE  ServersAwake'
  <2> DEFINE q == Head(sc[s].sent)
  <2> HIDE DEF Q
  <2>1. Q = [sc EXCEPT ![s].sent = Tail(@)]
    BY DEF Q, x
  <2>2. q \in Req /\ fail[t] \in BOOLEAN
    BY <1>1, <1>9 DEF ReadRedirection, TypeOK
  <2>3. EnterPostS(t)
    BY <1>9 DEF ReadRedirection
  <2>4. \/ sc' = Q
        \/ \E g \in GetShareConnection(Q[t], fail[t]) :
             sc' = [Q EXCEPT ![t] = g.conn] \/ sc' = [Q EXCEPT ![t] = Requeued(g.conn, kind, q)]
    BY <1>9, <2>1 DEF ReadRedirection
  <2>5. CASE sc' = Q
    BY <1>1, <1>6, <2>3, <2>5, ServerEntered
  <2>6. ASSUME NEW g \in GetShareConnection(Q[t], fail[t]),
               sc' = [Q EXCEPT ![t] = g.conn] \/ sc' = [Q EXCEPT ![t] = Requeued(g.conn, kind, q)]
        PROVE  ServersAwake'
    <3>1. g.conn \in ConnectConn /\ Ready(g.conn)
      BY <1>5, <1>6, <2>2, SharedConn, SharedReady
    <3>2. <<q>> \in Seq(Item) /\ <<Asking, q>> \in Seq(Item)
      BY <2>2, PutRequest
    <3> HIDE DEF q
    <3>3. Ready(Requeued(g.conn, kind, q))
      BY <3>1, <3>2, SendReady DEF Requeued
    <3>4. PICK y : Ready(y) /\ sc' = [Q EXCEPT ![t] = y]
      BY <2>6, <3>1, <3>3
    <3>5. Ready(sc'[t]) /\ \A u \in Server \ {t} : sc'[u] = Q[u]
      BY <1>5, <3>4
    <3> QED BY <1>1, <1>6, <2>3, <3>5, ServerEntered
  <2> QED BY <2>4, <2>5, <2>6
<1> QED BY <1>7, <1>8, <1>9

\* A connection is written, and may then be closed.
LEMMA WritingKeepsServers ==
    ASSUME TypeOK, ServersAwake, PostConnect
    PROVE  ServersAwake'
<1> DEFINE s == Head(postS)
           x == [sc[s] EXCEPT !.post = {}]
           n == Len(x.send)
           writes == x.status = "Normal" /\ x.link = "connected" /\ sc[s].post = {"Write"}
<1>1. postS # <<>> /\ postS \in Seq(Server) /\ postS' = Tail(postS) /\ pc # "closing"
  BY DEF PostConnect, TypeOK
<1>2. s \in Server
  BY <1>1, HeadTailProperties
<1>3. /\ sc[s] \in ConnectConn /\ x \in ConnectConn /\ x.send = sc[s].send
      /\ x.link = sc[s].link /\ x.status = sc[s].status /\ x.post = {}
      /\ x.writable = sc[s].writable
  <2>1. sc[s] \in ConnectConn
    BY <1>2 DEF TypeOK
  <2> QED BY ONLY <2>1 DEF ConnectConn
<1> HIDE DEF s, x
<1>4. PICK k \in 0..n, bad \in BOOLEAN :
        LET y == IF ~writes THEN x
                 ELSE IF bad THEN [Flushed(x, k) EXCEPT !.status = "IOError",
                                                        !.writable = x.writable,
                                                        !.wait = x.wait]
                 ELSE Flushed(x, k)
            close == (y.status # "Normal" \/ "Error" \in sc[s].post) /\ Open(x)
        IN
          /\ ~writes => k = 0
          /\ bad => writes /\ k < n
          /\ sc' = [sc EXCEPT ![s] = y]
          /\ wire' = [wire EXCEPT ![s] = @ \o SubSeq(x.send, 1, k)]
          /\ pc' = IF close THEN "closing" ELSE pc
          /\ cur' = IF close THEN s ELSE cur
          /\ IF close /\ y.status = "IOError"
             THEN /\ failures' = [failures EXCEPT ![s] = IncrFail(@)]
                  /\ fail' = [fail EXCEPT ![s] = @ \/ failures'[s] = 0]
             ELSE UNCHANGED <<failures, fail>>
  BY ONLY PostConnect, Zenon DEF PostConnect, s, x
<1> DEFINE z == [Flushed(x, k) EXCEPT !.status = "IOError", !.writable = x.writable,
                                      !.wait = x.wait]
           y == IF ~writes THEN x ELSE IF bad THEN z ELSE Flushed(x, k)
<1>5. sc' = [sc EXCEPT ![s] = y] /\ (pc' = "closing" => cur' = s)
  BY <1>1, <1>4
<1>6. Ready(y) /\ y.post = {}
  <2>1. CASE ~writes
    <3>1. ~("Error" \in sc[s].post) \/ x.status # "Normal"
      BY <1>2, <1>3 DEF ServersAwake, Ready
    <3>2. sc[s].post \subseteq {"Write", "Error"}
      BY <1>3 DEF ConnectConn, Event
    <3>3. Ready(x)
      <4>1. ASSUME Open(x), x.status = "Normal", x.send # <<>>
            PROVE  x.writable
        <5>1. CASE sc[s].post = {}
          BY <1>2, <1>3, <4>1, <5>1 DEF ServersAwake, Ready, Open
        <5>2. CASE sc[s].post # {}
          <6>1. sc[s].post = {"Write"}
            BY <3>1, <3>2, <4>1, <5>2
          <6>2. x.link = "connecting"
            BY <2>1, <4>1, <6>1 DEF Open
          <6> QED BY <1>2, <1>3, <6>2 DEF ServersAwake, Ready
        <5> QED BY <5>1, <5>2
      <4>2. x.link = "connecting" => x.writable
        BY <1>2, <1>3 DEF ServersAwake, Ready
      <4> QED BY <1>3, <4>1, <4>2 DEF Ready
    <3> QED BY <1>3, <2>1, <3>3
  <2>2. CASE writes
    <3>1. Flushed(x, k) \in ConnectConn /\ Flushed(x, k).link = "connected"
      BY <1>3, <2>2, FlushedConn
    <3>2. Flushed(x, k).post = {}
      <4> DEFINE more == k < Len(x.send)
                 rest == SubSeq(x.send, k + 1, Len(x.send))
                 moved == x.sent \o SubSeq(x.send, 1, k)
      <4>1. Flushed(x, k) = [x EXCEPT !.send = rest, !.sent = moved, !.writable = more,
                                      !.wait = TRUE]
        BY Zenon DEF Flushed
      <4> HIDE DEF more, rest, moved
      <4> QED BY <1>3, <4>1 DEF ConnectConn
    <3>3. Ready(Flushed(x, k))
      BY <1>3, <2>2, FlushedReady
    <3>4. z.post = {} /\ z.status = "IOError" /\ z.link = "connected"
      BY <3>1, <3>2 DEF ConnectConn
    <3>5. Ready(z)
      <4> HIDE DEF z
      <4> QED BY <3>4 DEF Ready
    <3> HIDE DEF z
    <3> QED BY <2>2, <3>2, <3>3, <3>4, <3>5
  <2> QED BY <2>1, <2>2
<1> HIDE DEF y
<1>7. sc'[s] = y /\ \A u \in Server \ {s} : sc'[u] = sc[u]
  BY <1>2, <1>5 DEF TypeOK
<1>8. \A u \in Server \ {s} : In(postS, u) => In(postS', u)
  BY <1>1, InTail DEF s
<1>9. \A u \in Server : Ready(sc'[u]) /\ (sc'[u].post # {} => In(postS', u))
  BY <1>6, <1>7, <1>8 DEF ServersAwake
<1>10. pc' = "closing" => sc'[cur'].post = {}
  BY <1>5, <1>6, <1>7
<1> QED BY <1>9, <1>10 DEF ServersAwake, Ready, In, Open

\* A connection is being closed.
LEMMA ClosingKeepsServers ==
    ASSUME LinkInv, ServersAwake, CloseSocket \/ \E q \in Req \cup Inner : CloseRequest(q)
    PROVE  ServersAwake'
<1>0. TypeOK /\ cur \in Server /\ sc[cur] \in ConnectConn /\ pc = "closing"
  BY DEF LinkInv, TypeOK, CloseSocket, CloseRequest
<1>1. sc[cur].post = {}
  BY <1>0 DEF ServersAwake
<1>2. ASSUME NEW y, Ready(y), y.post = {}, sc' = [sc EXCEPT ![cur] = y],
             cur' = cur, postS' = postS
      PROVE  ServersAwake'
  <2>1. sc'[cur] = y /\ \A u \in Server \ {cur} : sc'[u] = sc[u]
    BY <1>0, <1>2 DEF TypeOK
  <2>2. \A u \in Server : Ready(sc'[u]) /\ (sc'[u].post # {} => In(postS', u))
    BY <1>2, <2>1 DEF ServersAwake
  <2> QED BY <1>2, <2>1, <2>2 DEF ServersAwake, Ready, In, Open
<1>3. CASE CloseSocket
  <2> DEFINE y == [sc[cur] EXCEPT !.link = "closed", !.status = "None", !.writable = FALSE]
  <2>1. y.link = "closed" /\ y.post = {}
    BY <1>0, <1>1 DEF ConnectConn
  <2>2. sc' = [sc EXCEPT ![cur] = y] /\ cur' = cur /\ postS' = postS
    BY <1>0, <1>3 DEF CloseSocket, TypeOK
  <2> HIDE DEF y
  <2>3. Ready(y)
    BY <2>1 DEF Ready, Open
  <2> QED BY <1>2, <2>1, <2>2, <2>3
<1>4. ASSUME NEW q \in Req \cup Inner, CloseRequest(q)
      PROVE  ServersAwake'
  <2>1. cur' = cur /\ postS' = postS
    BY <1>4 DEF CloseRequest, loop
  <2>2. sc[cur].sent \in Seq(Item) /\ sc[cur].send \in Seq(Item)
    BY <1>0, QueueOfConn
  <2>3. CASE sc' = [sc EXCEPT ![cur].sent = Tail(@)]
    <3> DEFINE y == [sc[cur] EXCEPT !.sent = Tail(@)]
    <3>1. y.link = sc[cur].link /\ y.status = sc[cur].status /\ y.post = {}
            /\ y.writable = sc[cur].writable /\ y.send = sc[cur].send
      BY <1>0, <1>1 DEF ConnectConn
    <3>2. sc' = [sc EXCEPT ![cur] = y]
      BY <1>0, <2>3 DEF TypeOK
    <3> HIDE DEF y
    <3>3. Ready(y)
      BY <1>0, <1>1, <3>1 DEF ServersAwake, Ready, Open
    <3> QED BY <1>2, <2>1, <3>1, <3>2, <3>3
  <2>4. CASE sc[cur].send # <<>> /\ sc' = [sc EXCEPT ![cur].send = Tail(@)]
    <3> DEFINE y == [sc[cur] EXCEPT !.send = Tail(@)]
    <3>1. y.link = sc[cur].link /\ y.status = sc[cur].status /\ y.post = {}
            /\ y.writable = sc[cur].writable
      BY <1>0, <1>1 DEF ConnectConn
    <3>2. sc' = [sc EXCEPT ![cur] = y]
      BY <1>0, <2>4 DEF TypeOK
    <3> HIDE DEF y
    <3>3. Ready(y)
      BY <1>0, <1>1, <2>4, <3>1 DEF ServersAwake, Ready, Open
    <3> QED BY <1>2, <2>1, <3>1, <3>2, <3>3
  <2> QED BY <1>4, <2>3, <2>4 DEF CloseRequest
<1> QED BY <1>3, <1>4

\* The events and the checks of a connection.
LEMMA EventsKeepServers ==
    ASSUME LinkInv, ServersAwake, NEW s \in Server,
           \/ \E c \in Client : ReadForward(c, s)
           \/ ServerWritable(s) \/ CheckPool(s) \/ TimedOut(s)
           \/ \E status \in {"IOError", "OtherError"} : ServerError(s, status)
    PROVE  ServersAwake'
<1>0. TypeOK /\ sc[s] \in ConnectConn /\ fail[s] \in BOOLEAN /\ Ready(sc[s])
  BY DEF LinkInv, TypeOK, ServersAwake
<1>1. ASSUME NEW c \in Client, ReadForward(c, s)
      PROVE  ServersAwake'
  <2> DEFINE r == NextReq(c)
  <2>1. CanRead(c) /\ EnterPostS(s) /\ pc' = pc /\ pc = "wait"
    BY <1>1 DEF ReadForward, CanRead, loop
  <2>2. r \in Req /\ <<r>> \in Seq(Item)
    <3>1. r \in Req
      BY <1>0, <2>1, ParsedClient
    <3> QED BY <3>1, PutRequest
  <2>3. PICK g \in GetShareConnection(sc[s], fail[s]) :
          sc' = [sc EXCEPT ![s] = Send(g.conn, <<r>>)] \/ sc' = [sc EXCEPT ![s] = g.conn]
    BY <1>1 DEF ReadForward
  <2> HIDE DEF r
  <2>4. Ready(g.conn) /\ Ready(Send(g.conn, <<r>>))
    <3>1. g.conn \in ConnectConn /\ Ready(g.conn)
      BY <1>0, SharedConn, SharedReady
    <3> QED BY <2>2, <3>1, SendReady
  <2> QED BY <1>0, <2>1, <2>3, <2>4, ServerChanged
<1>2. CASE ServerWritable(s)
  <2> DEFINE z == [sc[s] EXCEPT !.link = "connected"]
             y == AddPost(z, "Write")
  <2>1. z \in ConnectConn /\ z.link = "connected" /\ z.post = sc[s].post
          /\ z.status = "Normal"
    BY <1>0, <1>2 DEF ConnectConn, ServerWritable
  <2> HIDE DEF z
  <2>2. y.link = "connected" /\ y.status = "Normal" /\ y.post = sc[s].post \cup {"Write"}
    BY <2>1 DEF AddPost, ConnectConn
  <2>3. sc' = [sc EXCEPT ![s] = y] /\ EnterPostS(s) /\ pc' = pc /\ pc = "wait"
    BY <1>0, <1>2 DEF ServerWritable, TypeOK, z, loop
  <2> HIDE DEF y
  <2>4. Ready(y)
    BY <1>0, <1>2, <2>2 DEF Ready, Open, ServerWritable
  <2> QED BY <1>0, <2>3, <2>4, ServerChanged
<1>3. CASE CheckPool(s)
  <2>1. PICK x \in Opened(sc[s]) : sc' = [sc EXCEPT ![s] = x]
    BY <1>3 DEF CheckPool
  <2>2. ~Open(sc[s]) /\ EnterPostS(s) /\ pc' = pc /\ pc = "checkPool"
    BY <1>3 DEF CheckPool, Open, loop
  <2>3. Ready(x)
    BY <1>0, <2>2, OpenedReady
  <2> QED BY <1>0, <2>1, <2>2, <2>3, ServerChanged
<1>4. CASE TimedOut(s)
  <2> DEFINE z == [sc[s] EXCEPT !.status = "OtherError", !.wait = FALSE]
             y == AddPost(z, "Error")
  <2>1. Open(sc[s])
    BY <1>4 DEF LinkInv, Linked, TimedOut, Waiting
  <2>2. z \in ConnectConn /\ z.link = sc[s].link /\ z.status = "OtherError"
          /\ z.writable = sc[s].writable
    BY <1>0 DEF ConnectConn
  <2>3. sc' = [sc EXCEPT ![s] = y] /\ EnterPostS(s) /\ pc' = pc /\ pc = "serverTimeout"
    BY <1>0, <1>4 DEF TimedOut, TypeOK, loop
  <2> HIDE DEF z
  <2>4. y.link = z.link /\ y.status = "OtherError" /\ y.writable = z.writable
    BY <2>2 DEF AddPost, ConnectConn
  <2> HIDE DEF y
  <2>5. Ready(y)
    BY <1>0, <2>1, <2>2, <2>4 DEF Ready, Open
  <2> QED BY <1>0, <2>3, <2>5, ServerChanged
<1>5. ASSUME NEW status \in {"IOError", "OtherError"}, ServerError(s, status)
      PROVE  ServersAwake'
  <2> DEFINE z == [sc[s] EXCEPT !.status = status]
             y == AddPost(z, "Error")
  <2>1. z \in ConnectConn /\ z.link = sc[s].link /\ z.status = status
          /\ z.writable = sc[s].writable
    BY <1>0 DEF ConnectConn
  <2>2. sc' = [sc EXCEPT ![s] = y] /\ EnterPostS(s) /\ pc' = pc /\ pc = "wait" /\ Open(sc[s])
    BY <1>0, <1>5 DEF ServerError, TypeOK, loop
  <2> HIDE DEF z
  <2>3. y.link = z.link /\ y.status = status /\ y.writable = z.writable
    BY <2>1 DEF AddPost, ConnectConn
  <2> HIDE DEF y
  <2>4. Ready(y)
    BY <1>0, <2>1, <2>2, <2>3 DEF Ready, Open
  <2> QED BY <1>0, <2>2, <2>4, ServerChanged
<1> QED BY <1>1, <1>2, <1>3, <1>4, <1>5

\* A step loses no event of a connection.
LEMMA StepKeepsServers ==
    ASSUME LinkInv, ServersAwake, [Next]_vars
    PROVE  ServersAwake'
<1>0. TypeOK
  BY DEF LinkInv
<1>1. ASSUME UNCHANGED <<sc, postS>>, pc' # "closing" \/ UNCHANGED <<pc, cur>>
      PROVE  ServersAwake'
  BY <1>1 DEF ServersAwake, Ready, In, Open
<1>2. CASE UNCHANGED vars
  BY <1>1, <1>2 DEF vars
<1>3. ASSUME NEW c \in Client,
             \/ Accept(c) \/ ReadIgnored(c) \/ ReadInvalid(c) \/ ClientError(c)
             \/ ClientWritable(c) \/ IdleClient(c)
             \/ \E quit \in BOOLEAN : ReadDirect(c, quit)
      PROVE  ServersAwake'
  <2>1. UNCHANGED <<sc, postS>> /\ (pc' # "closing" \/ UNCHANGED <<pc, cur>>)
    BY <1>3 DEF Accept, ReadIgnored, ReadInvalid, ClientError, ClientWritable,
                IdleClient, ReadDirect, loop
  <2> QED BY <1>1, <2>1
<1>4. CASE EndWait \/ TurnToAccept \/ PostAccept \/ EndPost \/ NoIdleClient \/ EndCheckPool
  <2>1. after # "closing"
    BY <1>0 DEF TypeOK
  <2>2. UNCHANGED <<sc, postS>> /\ (pc' # "closing" \/ UNCHANGED <<pc, cur>>)
    BY <1>4, <2>1 DEF EndWait, TurnToAccept, PostAccept, EndPost, NoIdleClient,
                      EndCheckPool, loop
  <2> QED BY <1>1, <2>2
<1>5. CASE EndServerTimeout
  <2>1. postS' = postS /\ pc' # "closing"
    BY <1>5 DEF EndServerTimeout
  <2>2. ASSUME NEW u \in Server
        PROVE  Ready(sc'[u]) /\ sc'[u].post = sc[u].post
    <3> DEFINE w == sc[u].wait /\ Waiting(sc[u])
    <3>1. sc[u] \in ConnectConn
      BY <1>0 DEF TypeOK
    <3>2. sc'[u] = [sc[u] EXCEPT !.wait = w]
      BY <1>5 DEF EndServerTimeout
    <3> HIDE DEF w
    <3>3. /\ sc'[u].link = sc[u].link /\ sc'[u].status = sc[u].status
          /\ sc'[u].post = sc[u].post /\ sc'[u].writable = sc[u].writable
          /\ sc'[u].send = sc[u].send
      BY <3>1, <3>2 DEF ConnectConn
    <3> QED BY <3>3 DEF ServersAwake, Ready, Open
  <2> QED BY <2>1, <2>2 DEF ServersAwake, Ready, In, Open
<1>6. ASSUME NEW s \in Server,
             \/ \E c \in Client : ReadForward(c, s)
             \/ ServerWritable(s) \/ CheckPool(s) \/ TimedOut(s)
             \/ \E status \in {"IOError", "OtherError"} : ServerError(s, status)
      PROVE  ServersAwake'
  BY <1>6, EventsKeepServers
<1>7. ASSUME NEW s \in Server,
             \/ \E ok \in BOOLEAN : ReadInnerReply(s, ok)
             \/ ReadLateReply(s)
             \/ ReadReply(s)
             \/ \E kind \in {"moved", "ask"}, t \in Server : ReadRedirection(s, kind, t)
      PROVE  ServersAwake'
  BY <1>7, ReplyKeepsServers
<1>8. CASE PostConnect
  BY <1>0, <1>8, WritingKeepsServers
<1>9. CASE CloseSocket \/ \E q \in Req \cup Inner : CloseRequest(q)
  BY <1>9, ClosingKeepsServers
<1>10. CASE SocketEvent
  BY <1>10, <1>3, <1>6, <1>7, Zenon DEF SocketEvent
<1>11. CASE EndWait \/ PostStep \/ CheckStep \/ UNCHANGED vars
  BY <1>11, <1>2, <1>3, <1>4, <1>5, <1>6, <1>8, <1>9, Zenon DEF PostStep, CheckStep
<1> QED BY <1>10, <1>11 DEF Next

-----------------------------------------------------------------------------
(* The same of the clients.                                                *)

\* Clients change, and of the post events and the answers that are due only
\* those of client c, which is entered in the list.
LEMMA ClientEntered ==
    ASSUME TypeOK, ClientsAwake, NEW c \in Client, EnterPostA(c),
           Due(c)' => cc'[c].writable \/ "Write" \in cc'[c].post,
           \A d \in Client \ {c} : cc'[d] = cc[d] /\ (Due(d)' => Due(d))
    PROVE  ClientsAwake'
<1>1. postA \in Seq(Client)
  BY DEF TypeOK
<1>2. cc'[c].post # {} => In(postA', c)
  BY <1>1, InAppended DEF EnterPostA, ClientsAwake
<1>3. \A d \in Client : In(postA, d) => In(postA', d)
  BY <1>1, InAppended DEF EnterPostA
<1>4. \A d \in Client \ {c} : /\ cc'[d].post # {} => In(postA', d)
                              /\ Due(d)' => cc'[d].writable \/ "Write" \in cc'[d].post
  BY <1>3 DEF ClientsAwake
<1>5. \A d \in Client : /\ cc'[d].post # {} => In(postA', d)
                        /\ Due(d)' => cc'[d].writable \/ "Write" \in cc'[d].post
  BY <1>2, <1>4
<1> QED BY <1>5 DEF ClientsAwake, In, Due, Live, Done

\* What is due to client d does not change with the answer of a request of
\* another client.
LEMMA OthersDue ==
    ASSUME TypeOK, Pipelined, NEW c \in Client, NEW d \in Client, c # d, cc'[d] = cc[d],
           \A r \in Req : r[1] # c => res'[r] = res[r]
    PROVE  Due(d)' => Due(d)
<1> SUFFICES ASSUME Due(d)' PROVE Due(d)
  OBVIOUS
<1>1. Live(d) /\ cc[d].requests # <<>> /\ res'[Head(cc[d].requests)] # NoRes
  BY DEF Due, Live, Done
<1>2. cc[d].requests \in Seq(Req) /\ out[d] \in Seq(Answer)
  BY DEF TypeOK, AcceptConn
<1> DEFINE q == cc[d].requests
<1>3. Head(q) = q[1] /\ q[1] \in Req /\ 1 \in 1..Len(q)
  BY <1>1, <1>2, HeadTailProperties, LenProperties, EmptySeq, ElementOfSeq
<1>4. q[1] = <<d, Len(out[d]) + 1>>
  BY <1>3 DEF Pipelined
<1>5. Head(q)[1] # c
  BY <1>3, <1>4
<1>6. res[Head(q)] # NoRes
  BY <1>1, <1>3, <1>5
<1> QED BY <1>1, <1>6 DEF Due, Done

\* Answering request r enters its client, in state x, when the answer is due.
LEMMA AnswerDue ==
    ASSUME TypeOK, Pipelined, ClientsAwake, NEW r \in Req, NEW x \in AcceptConn,
           NEW a \in Answer, SetResponse(x, r, a), EnterPostA(r[1])
    PROVE  ClientsAwake'
<1>1. r[1] \in Client
  BY DEF Req
<1>2. res' = [res EXCEPT ![r] = a] /\ \A d \in Client \ {r[1]} : cc'[d] = cc[d]
  BY <1>1, SetResponseClient
<1>3. \A q \in Req : q[1] # r[1] => res'[q] = res[q]
  BY <1>2 DEF TypeOK
<1>4. \A d \in Client \ {r[1]} : cc'[d] = cc[d] /\ (Due(d)' => Due(d))
  BY <1>1, <1>2, <1>3, OthersDue
<1>5. cc'[r[1]] = IF res'[Head(x.requests)] # NoRes THEN AddPost(x, "Write") ELSE x
  BY <1>1 DEF SetResponse, TypeOK
<1>6. AddPost(x, "Write").post = x.post \cup {"Write"} /\ AddPost(x, "Write").requests = x.requests
  BY DEF AddPost, AcceptConn
<1>7. Due(r[1])' => "Write" \in cc'[r[1]].post
  BY <1>5, <1>6 DEF Due, Done
<1> QED BY <1>1, <1>4, <1>7, ClientEntered

\* A request that was just read and has no answer is not due.
LEMMA ReadKeepsClients ==
    ASSUME TypeOK, Pipelined, Placed, ClientsAwake, NEW c \in Client, CanRead(c),
           cc' = [cc EXCEPT ![c] = Parsed(c)], res' = res, postA' = postA
    PROVE  ClientsAwake'
<1>1. cc[c] \in AcceptConn /\ cc[c].requests \in Seq(Req)
  BY DEF TypeOK, AcceptConn
<1>2. /\ Parsed(c).requests = Append(cc[c].requests, NextReq(c))
      /\ Parsed(c).post = cc[c].post /\ Parsed(c).writable = cc[c].writable
      /\ Parsed(c).fd = cc[c].fd /\ Parsed(c).good = cc[c].good
      /\ NextReq(c) \in Req
  <2>1. Parsed(c).post = cc[c].post /\ Parsed(c).writable = cc[c].writable
          /\ Parsed(c).good = cc[c].good
    BY <1>1 DEF Parsed, AcceptConn
  <2> QED BY <2>1, ParsedClient
<1>3. cc'[c] = Parsed(c) /\ \A d \in Client \ {c} : cc'[d] = cc[d]
  BY DEF TypeOK
<1>4. EnterPostA(c)
  BY <1>2, <1>3 DEF EnterPostA
<1>5. res[NextReq(c)] = NoRes
  <2>1. cc[c].parsed \in Nat
    BY ParsedIsNat
  <2>2. NextReq(c)[1] = c /\ NextReq(c)[2] = cc[c].parsed + 1
    BY DEF NextReq
  <2>3. ~(NextReq(c)[2] <= cc[NextReq(c)[1]].parsed)
    BY <2>1, <2>2
  <2> QED BY <1>2, <2>3 DEF Placed, Done
<1>6. Due(c)' => Due(c)
  <2> SUFFICES ASSUME Due(c)' PROVE Due(c)
    OBVIOUS
  <2>1. Live(c) /\ res[Head(Append(cc[c].requests, NextReq(c)))] # NoRes
    BY <1>2, <1>3 DEF Due, Live, Done
  <2>2. cc[c].requests # <<>>
    <3> SUFFICES ASSUME cc[c].requests = <<>> PROVE FALSE
      OBVIOUS
    <3>1. Head(Append(<<>>, NextReq(c))) = NextReq(c)
      BY <1>2
    <3> QED BY <1>5, <2>1, <3>1
  <2>3. Head(Append(cc[c].requests, NextReq(c))) = Head(cc[c].requests)
    <3> DEFINE q == cc[c].requests
               r == NextReq(c)
    <3>1. q \in Seq(Req) /\ r \in Req /\ q # <<>>
      BY <1>1, <1>2, <2>2
    <3> HIDE DEF q, r
    <3>2. Len(q) \in Nat \ {0}
      BY <3>1, LenProperties, EmptySeq
    <3>3. Append(q, r) \in Seq(Req) /\ Append(q, r) # <<>> /\ Append(q, r)[1] = q[1]
      BY <3>1, <3>2, AppendProperties
    <3>4. Head(Append(q, r)) = Head(q)
      BY <3>1, <3>3, HeadTailProperties
    <3> QED BY <3>4 DEF q, r
  <2> QED BY <2>1, <2>2, <2>3 DEF Due, Done
<1>7. Due(c)' => cc'[c].writable \/ "Write" \in cc'[c].post
  BY <1>2, <1>3, <1>6 DEF ClientsAwake
<1>8. \A d \in Client \ {c} : cc'[d] = cc[d] /\ (Due(d)' => Due(d))
  BY <1>3, OthersDue
<1> QED BY <1>4, <1>7, <1>8, ClientEntered

\* Nothing of the clients and no answer changes.
LEMMA NothingDue ==
    ASSUME ClientsAwake, UNCHANGED <<cc, res, postA>>
    PROVE  ClientsAwake'
BY DEF ClientsAwake, Due, Live, Done, In

\* Client c reads, comes or goes.
LEMMA EventsKeepClients ==
    ASSUME LinkInv, OrderInv, QueueInv, KeptInv, ClientsAwake, NEW c \in Client,
           \/ Accept(c) \/ ReadIgnored(c) \/ ReadInvalid(c) \/ ClientError(c)
           \/ ClientWritable(c) \/ IdleClient(c)
           \/ \E quit \in BOOLEAN : ReadDirect(c, quit)
           \/ \E s \in Server : ReadForward(c, s)
    PROVE  ClientsAwake'
<1>0. TypeOK /\ Pipelined /\ Placed /\ cc[c] \in AcceptConn /\ NothingEarly
  BY DEF LinkInv, TypeOK, OrderInv, QueueInv, KeptInv
<1> DEFINE r == NextReq(c)
           a == [kind |-> "proxy", of |-> r]
<1>1. ASSUME CanRead(c)
      PROVE  r \in Req /\ a \in Answer /\ Parsed(c) \in AcceptConn /\ r[1] = c
  <2>1. r \in Req /\ Parsed(c) \in AcceptConn
    BY <1>0, <1>1, ParsedClient
  <2> QED BY <2>1, ProxyAnswer DEF NextReq
<1>2. ASSUME NEW x \in AcceptConn, CanRead(c), SetResponse(x, r, a), EnterPostA(c)
      PROVE  ClientsAwake'
  <2> HIDE DEF r, a
  <2> QED BY <1>0, <1>1, <1>2, AnswerDue
<1>3. CASE Accept(c)
  <2> DEFINE x == [cc[c] EXCEPT !.fd = "open"]
  <2>1. x.requests = cc[c].requests /\ x.post = cc[c].post
    BY <1>0 DEF AcceptConn
  <2>2. cc[c].fd = "none" /\ cc' = [cc EXCEPT ![c] = x] /\ UNCHANGED <<res, postA>>
    BY <1>0, <1>3 DEF Accept, TypeOK
  <2> HIDE DEF x
  <2>3. cc'[c] = x /\ \A d \in Client \ {c} : cc'[d] = cc[d]
    BY <1>0, <2>2 DEF TypeOK
  <2>4. cc[c].requests = <<>>
    <3>1. cc[c].requests \in Seq(Req) /\ out[c] \in Seq(Answer)
      BY <1>0 DEF TypeOK, AcceptConn
    <3>2. Len(cc[c].requests) \in Nat /\ Len(out[c]) \in Nat
      BY <3>1, LenProperties
    <3>3. Len(cc[c].requests) + Len(out[c]) = 0
      BY <1>0, <2>2 DEF Pipelined, NothingEarly
    <3>4. Len(cc[c].requests) = 0
      <4> DEFINE n == Len(cc[c].requests)
                 m == Len(out[c])
      <4>1. n \in Nat /\ m \in Nat /\ n + m = 0
        BY <3>2, <3>3
      <4> HIDE DEF n, m
      <4>2. n = 0
        BY <4>1
      <4> QED BY <4>2 DEF n
    <3> QED BY <3>1, <3>4, EmptySeq
  <2>5. EnterPostA(c) /\ ~Due(c)'
    BY <2>1, <2>2, <2>3, <2>4 DEF EnterPostA, Due
  <2>6. \A d \in Client \ {c} : cc'[d] = cc[d] /\ (Due(d)' => Due(d))
    BY <1>0, <2>2, <2>3, OthersDue
  <2> QED BY <1>0, <2>5, <2>6, ClientEntered
<1>4. CASE ReadIgnored(c)
  BY <1>0, <1>4, ReadKeepsClients DEF ReadIgnored
<1>5. CASE ReadInvalid(c)
  <2>1. CanRead(c) /\ SetResponse(Parsed(c), r, a) /\ EnterPostA(c)
    BY <1>5 DEF ReadInvalid
  <2> QED BY <1>1, <1>2, <2>1
<1>6. ASSUME NEW quit \in BOOLEAN, ReadDirect(c, quit)
      PROVE  ClientsAwake'
  <2> DEFINE x == [Parsed(c) EXCEPT !.closeASAP = quit]
  <2>1. CanRead(c) /\ SetResponse(x, r, a) /\ EnterPostA(c)
    BY <1>6 DEF ReadDirect
  <2>2. x \in AcceptConn
    BY <1>1, <2>1 DEF AcceptConn
  <2> HIDE DEF x, r, a
  <2> QED BY <1>2, <2>1, <2>2
<1>7. ASSUME NEW s \in Server, ReadForward(c, s)
      PROVE  ClientsAwake'
  <2>1. CanRead(c) /\ EnterPostA(c)
          /\ \/ cc' = [cc EXCEPT ![c] = Parsed(c)] /\ UNCHANGED res
             \/ SetResponse(Parsed(c), r, a)
    BY <1>7 DEF ReadForward
  <2>2. CASE cc' = [cc EXCEPT ![c] = Parsed(c)] /\ UNCHANGED res
    <3>1. Parsed(c).post = cc[c].post
      BY <1>0 DEF Parsed, AcceptConn
    <3>2. postA' = postA
      BY <1>0, <2>1, <2>2, <3>1 DEF EnterPostA, TypeOK
    <3> QED BY <1>0, <2>1, <2>2, <3>2, ReadKeepsClients
  <2>3. CASE SetResponse(Parsed(c), r, a)
    BY <1>1, <1>2, <2>1, <2>3
  <2> QED BY <2>1, <2>2, <2>3
<1>8. CASE ClientError(c)
  <2> DEFINE x == [cc[c] EXCEPT !.good = FALSE]
  <2>1. x \in AcceptConn /\ ~x.good
    BY <1>0 DEF AcceptConn
  <2>2. cc' = [cc EXCEPT ![c] = AddPost(x, "Error")] /\ EnterPostA(c) /\ res' = res
    BY <1>0, <1>8 DEF ClientError, TypeOK
  <2> HIDE DEF x
  <2>3. ~cc'[c].good /\ \A d \in Client \ {c} : cc'[d] = cc[d]
    BY <1>0, <2>1, <2>2, AddPostClient DEF TypeOK, Event
  <2>4. ~Due(c)'
    BY <2>3 DEF Due, Live
  <2>5. \A d \in Client \ {c} : cc'[d] = cc[d] /\ (Due(d)' => Due(d))
    BY <1>0, <2>2, <2>3, OthersDue
  <2> QED BY <1>0, <2>2, <2>4, <2>5, ClientEntered
<1>9. CASE ClientWritable(c) \/ IdleClient(c)
  <2>1. PICK e \in Event : cc' = [cc EXCEPT ![c] = AddPost(@, e)]
    BY <1>9 DEF ClientWritable, IdleClient, Event
  <2>2. EnterPostA(c) /\ res' = res
    BY <1>9 DEF ClientWritable, IdleClient
  <2>3. cc'[c] = AddPost(cc[c], e) /\ \A d \in Client \ {c} : cc'[d] = cc[d]
    BY <1>0, <2>1 DEF TypeOK
  <2>4. /\ cc'[c].fd = cc[c].fd /\ cc'[c].good = cc[c].good
        /\ cc'[c].requests = cc[c].requests /\ cc'[c].writable = cc[c].writable
        /\ cc'[c].post = cc[c].post \cup {e}
    BY <1>0, <2>3 DEF AddPost, AcceptConn
  <2>5. Due(c)' => cc'[c].writable \/ "Write" \in cc'[c].post
    BY <2>2, <2>4 DEF ClientsAwake, Due, Live, Done
  <2>6. \A d \in Client \ {c} : cc'[d] = cc[d] /\ (Due(d)' => Due(d))
    BY <1>0, <2>2, <2>3, OthersDue
  <2> QED BY <1>0, <2>2, <2>5, <2>6, ClientEntered
<1> QED BY <1>3, <1>4, <1>5, <1>6, <1>7, <1>8, <1>9

\* An answer is found, or not.
LEMMA AnswersKeepClients ==
    ASSUME LinkInv, OrderInv, ClientsAwake,
           \/ \E s \in Server :
                \/ ReadReply(s)
                \/ \E kind \in {"moved", "ask"}, t \in Server : ReadRedirection(s, kind, t)
           \/ \E q \in Req \cup Inner : CloseRequest(q)
    PROVE  ClientsAwake'
<1>0. TypeOK /\ Pipelined
  BY DEF LinkInv, OrderInv
<1>1. ASSUME NEW r \in Req, NEW a \in Answer, SetResponse(cc[r[1]], r, a), EnterPostA(r[1])
      PROVE  ClientsAwake'
  <2>1. cc[r[1]] \in AcceptConn
    BY <1>0 DEF TypeOK, Req
  <2> QED BY <1>0, <1>1, <2>1, AnswerDue
<1>2. ASSUME NEW s \in Server, ReadReply(s)
      PROVE  ClientsAwake'
  <2> DEFINE q == Head(sc[s].sent)
             a == [kind |-> "data", of |-> Head(wire[s])]
  <2>1. q \in Req /\ Head(wire[s]) = q /\ SetResponse(cc[q[1]], q, a) /\ EnterPostA(q[1])
    BY <1>2, ReplyMatches DEF ReadReply
  <2>2. a \in Answer
    BY <2>1 DEF Answer
  <2> HIDE DEF q, a
  <2> QED BY <1>1, <2>1, <2>2
<1>3. ASSUME NEW s \in Server, NEW kind \in {"moved", "ask"}, NEW t \in Server,
             ReadRedirection(s, kind, t)
      PROVE  ClientsAwake'
  <2> DEFINE q == Head(sc[s].sent)
             a == [kind |-> kind, of |-> Head(wire[s]), to |-> t]
  <2>1. q \in Req /\ Head(wire[s]) = q /\ EnterPostA(q[1])
    BY <1>3, ReplyMatches DEF ReadRedirection
  <2>2. SetResponse(cc[q[1]], q, a) \/ UNCHANGED <<cc, res>>
    BY <1>3 DEF ReadRedirection
  <2>3. a \in Answer
    BY <2>1 DEF Answer
  <2> HIDE DEF q, a
  <2>4. CASE UNCHANGED <<cc, res>>
    <3>1. postA' = postA
      BY <2>1, <2>4 DEF EnterPostA
    <3> QED BY <2>4, <3>1, NothingDue
  <2> QED BY <1>1, <2>1, <2>2, <2>3, <2>4
<1>4. ASSUME NEW q \in Req \cup Inner, CloseRequest(q)
      PROVE  ClientsAwake'
  <2> DEFINE a == [kind |-> "proxy", of |-> q]
  <2>1. \/ q \in Req /\ SetResponse(cc[q[1]], q, a) /\ EnterPostA(q[1])
        \/ UNCHANGED <<cc, res, postA>>
    BY <1>4 DEF CloseRequest, Answerable
  <2>2. q \in Req => a \in Answer
    BY ProxyAnswer
  <2> HIDE DEF a
  <2> QED BY <1>1, <2>1, <2>2, NothingDue
<1> QED BY <1>2, <1>3, <1>4

\* A client is written, and waited for when an answer is left.
LEMMA WritingKeepsClients ==
    ASSUME TypeOK, Pipelined, ClientsAwake, PostAccept
    PROVE  ClientsAwake'
<1>0. res' = res /\ postA \in Seq(Client)
  BY DEF PostAccept, TypeOK
<1>1. PICK c \in Client : \E j \in 0..Len(cc[c].requests) : Written(c, j)
  BY PostAcceptWrites
<1>2. PICK k \in 0..Len(cc[c].requests) : Written(c, k)
  BY <1>1
<1>3. /\ postA # <<>> /\ c = Head(postA) /\ postA' = Tail(postA)
      /\ \A d \in Client \ {c} : cc'[d] = cc[d]
      /\ cc'[c].post = {} /\ (cc'[c].good => cc[c].good)
  BY <1>2 DEF Written
<1>4. \A d \in Client \ {c} : In(postA, d) => In(postA', d)
  BY <1>0, <1>3, InTail
<1>5. \A d \in Client \ {c} : Due(d)' => Due(d)
  BY <1>0, <1>3, OthersDue
<1>6. ASSUME Due(c)'
      PROVE  cc'[c].writable
  <2> DEFINE q == cc[c].requests
             n == Len(cc[c].requests)
             writes == cc[c].good /\ "Write" \in cc[c].post
  <2>1. Live(c)' /\ cc'[c].requests # <<>> /\ res[Head(cc'[c].requests)] # NoRes
    BY <1>0, <1>6 DEF Due, Done
  <2>2. cc'[c].fd = "open" /\ cc'[c].fd = cc[c].fd /\ cc[c].good
    BY <1>2, <1>3, <2>1 DEF Written, Live
  <2>3. CASE ~writes /\ cc'[c].requests = q /\ cc'[c].writable = cc[c].writable
    <3>1. Due(c)
      BY <2>1, <2>2, <2>3 DEF Due, Live, Done
    <3> QED BY <2>2, <2>3, <3>1 DEF ClientsAwake
  <2>4. CASE /\ cc'[c].requests = SubSeq(q, k + 1, n)
             /\ cc'[c].writable <=> ~(k = n \/ ~Done(q[k + 1]))
    <3>1. q \in Seq(Req) /\ n \in Nat /\ k \in Nat /\ k <= n
      <4>1. q \in Seq(Req)
        BY DEF TypeOK, AcceptConn
      <4> QED BY <4>1, LenProperties
    <3>2. k # n
      <4> SUFFICES ASSUME k = n PROVE FALSE
        OBVIOUS
      <4> HIDE DEF n
      <4>1. k + 1 > n
        BY <3>1
      <4>2. SubSeq(q, k + 1, n) = <<>>
        BY <3>1, <4>1, SubSeqEmpty
      <4> QED BY <2>1, <2>4, <4>2
    <3>3. Head(SubSeq(q, k + 1, n)) = q[k + 1]
      <4>1. \A i \in k + 1..n : q[i] \in Req
        BY <3>1, ElementOfSeq
      <4> DEFINE T == SubSeq(q, k + 1, n)
      <4> HIDE DEF n, q
      <4>2. /\ T \in Seq(Req)
            /\ Len(T) = IF k + 1 <= n THEN n - (k + 1) + 1 ELSE 0
            /\ \A i \in 1..n - (k + 1) + 1 : T[i] = q[(k + 1) + i - 1]
        BY <3>1, <4>1, SubSeqProperties
      <4> HIDE DEF T
      <4>3. k + 1 <= n /\ 1 \in 1..n - (k + 1) + 1 /\ (k + 1) + 1 - 1 = k + 1
              /\ n - (k + 1) + 1 > 0
        BY <3>1, <3>2
      <4>4. T[1] = q[k + 1] /\ Len(T) > 0
        BY <4>2, <4>3
      <4>5. T # <<>>
        BY <4>4, EmptySeq
      <4>6. Head(T) = q[k + 1]
        BY <4>2, <4>4, <4>5, HeadTailProperties
      <4> QED BY <4>6 DEF T
    <3> QED BY <2>1, <2>4, <3>2, <3>3 DEF Done
  <2> QED BY <1>2, <2>2, <2>3, <2>4 DEF Written
<1>7. \A d \in Client : /\ cc'[d].post # {} => In(postA', d)
                        /\ Due(d)' => cc'[d].writable \/ "Write" \in cc'[d].post
  BY <1>3, <1>4, <1>5, <1>6 DEF ClientsAwake
<1> QED BY <1>7 DEF ClientsAwake, In, Due, Live, Done

\* A step loses no event of a client.
LEMMA StepKeepsClients ==
    ASSUME LinkInv, OrderInv, QueueInv, KeptInv, ClientsAwake, [Next]_vars
    PROVE  ClientsAwake'
<1>1. CASE UNCHANGED vars
  BY <1>1, NothingDue DEF vars
<1>2. ASSUME \/ \E s \in Server :
                  \/ ServerWritable(s) \/ CheckPool(s) \/ TimedOut(s) \/ ReadLateReply(s)
                  \/ \E status \in {"IOError", "OtherError"} : ServerError(s, status)
                  \/ \E ok \in BOOLEAN : ReadInnerReply(s, ok)
             \/ EndWait \/ PostConnect \/ CloseSocket \/ TurnToAccept \/ EndPost
             \/ NoIdleClient \/ EndCheckPool \/ EndServerTimeout
      PROVE  ClientsAwake'
  <2>1. UNCHANGED <<cc, res, postA>>
    BY <1>2 DEF ServerWritable, CheckPool, TimedOut, ReadLateReply, ServerError,
                ReadInnerReply, EndWait, PostConnect, CloseSocket, TurnToAccept,
                EndPost, NoIdleClient, EndCheckPool, EndServerTimeout
  <2> QED BY <2>1, NothingDue
<1>3. ASSUME NEW c \in Client,
             \/ Accept(c) \/ ReadIgnored(c) \/ ReadInvalid(c) \/ ClientError(c)
             \/ ClientWritable(c) \/ IdleClient(c)
             \/ \E quit \in BOOLEAN : ReadDirect(c, quit)
             \/ \E s \in Server : ReadForward(c, s)
      PROVE  ClientsAwake'
  BY <1>3, EventsKeepClients
<1>4. ASSUME \/ \E s \in Server :
                  \/ ReadReply(s)
                  \/ \E kind \in {"moved", "ask"}, t \in Server : ReadRedirection(s, kind, t)
             \/ \E q \in Req \cup Inner : CloseRequest(q)
      PROVE  ClientsAwake'
  BY <1>4, AnswersKeepClients
<1>5. CASE PostAccept
  BY <1>5, WritingKeepsClients DEF LinkInv, OrderInv
<1>6. CASE SocketEvent
  BY <1>6, <1>2, <1>3, <1>4, Zenon DEF SocketEvent
<1>7. CASE EndWait \/ PostStep \/ CheckStep \/ UNCHANGED vars
  BY <1>7, <1>1, <1>2, <1>3, <1>4, <1>5, Zenon DEF PostStep, CheckStep
<1> QED BY <1>6, <1>7 DEF Next

\* On every reachable state each connection that has something to do is in a
\* post list or waited for.
THEOREM AwakeInvariant == Spec => [](ServersAwake /\ ClientsAwake)
<1>1. Init => ServersAwake /\ ClientsAwake
  <2> SUFFICES ASSUME Init PROVE ServersAwake /\ ClientsAwake
    OBVIOUS
  <2>1. \A s \in Server : sc[s].post = {} /\ sc[s].link = "none"
    BY DEF Init
  <2>2. \A c \in Client : cc[c].post = {} /\ cc[c].requests = <<>>
    BY DEF Init
  <2>3. pc = "wait"
    BY DEF Init
  <2> QED BY <2>1, <2>2, <2>3 DEF ServersAwake, ClientsAwake, Ready, Open, Due
<1>2. LinkInv /\ ServersAwake /\ [Next]_vars => ServersAwake'
  BY StepKeepsServers
<1>3. LinkInv /\ OrderInv /\ QueueInv /\ KeptInv /\ ClientsAwake /\ [Next]_vars => ClientsAwake'
  BY StepKeepsClients
<1> QED
  BY <1>1, <1>2, <1>3, LinkInvariant, OrderInvariant, QueueInvariant, KeptInvariant, PTL
     DEF Spec

\* No wakeup is lost: although sockets are registered edge-triggered, what a
\* working connection has to write is announced in a post list or waited for
\* with epoll.
THEOREM NoStallAlways == Spec => []NoStall
<1>1. ServersAwake /\ ClientsAwake => NoStall
  BY DEF ServersAwake, ClientsAwake, NoStall, Ready, Due, In
<1> QED BY <1>1, AwakeInvariant, PTL
=============================================================================
