--------------------------- MODULE PipelineProofs ---------------------------
(***************************************************************************)
(* Theorems of Pipeline, for any clients, servers and bounds.              *)
(***************************************************************************)
EXTENDS Pipeline, SequenceTheorems, TLAPS

\* The requests a connection carries.
Item == Req \cup Inner

\* Nothing is queued on a connection that is not open; on one that is, sent
\* holds what its server has yet to answer, but while it is being closed.
Linked ==
    \A s \in Server :
      /\ ~Open(sc[s]) => sc[s].send = <<>> /\ sc[s].sent = <<>> /\ wire[s] = <<>>
      /\ ~(pc = "closing" /\ cur = s) => sc[s].sent = wire[s]

LinkInv == TypeOK /\ Linked

-----------------------------------------------------------------------------
(* What the operations on a connection keep of it.                         *)

\* A post event changes nothing else of a connection.
LEMMA AddPostConn ==
    ASSUME NEW x \in ConnectConn, NEW e \in Event
    PROVE  /\ AddPost(x, e) \in ConnectConn
           /\ AddPost(x, e).link = x.link
           /\ AddPost(x, e).send = x.send
           /\ AddPost(x, e).sent = x.sent
BY DEF AddPost, ConnectConn, Event

\* Queueing requests leaves the link and what was sent.
LEMMA SendConn ==
    ASSUME NEW x \in ConnectConn, NEW q \in Seq(Item)
    PROVE  /\ Send(x, q) \in ConnectConn
           /\ Send(x, q).link = x.link
           /\ Send(x, q).sent = x.sent
<1>1. x.send \o q \in Seq(Item)
  BY ConcatProperties DEF ConnectConn, Item
<1> QED BY <1>1 DEF Send, AddPost, ConnectConn, Event, Item

\* A write adds the first unsent requests to the sent ones.
LEMMA FlushedConn ==
    ASSUME NEW x \in ConnectConn, NEW k \in 0..Len(x.send)
    PROVE  /\ Flushed(x, k) \in ConnectConn
           /\ Flushed(x, k).link = x.link
           /\ Flushed(x, k).status = x.status
           /\ Flushed(x, k).sent = x.sent \o SubSeq(x.send, 1, k)
           /\ SubSeq(x.send, 1, k) \in Seq(Item)
<1>1. x.send \in Seq(Item) /\ x.sent \in Seq(Item)
  BY DEF ConnectConn, Item
<1>2. Len(x.send) \in Nat /\ k \in Nat
  BY <1>1, LenProperties
<1>3. \A i \in 1..Len(x.send) : x.send[i] \in Item
  BY <1>1, ElementOfSeq
<1>4. SubSeq(x.send, 1, k) \in Seq(Item)
  <2>1. \A i \in 1..k : x.send[i] \in Item
    BY <1>2, <1>3
  <2> QED BY <2>1, <1>2, SubSeqProperties
<1>5. SubSeq(x.send, k + 1, Len(x.send)) \in Seq(Item)
  <2>1. \A i \in k + 1..Len(x.send) : x.send[i] \in Item
    BY <1>2, <1>3
  <2> QED BY <2>1, <1>2, SubSeqProperties
<1>6. x.sent \o SubSeq(x.send, 1, k) \in Seq(Item)
  BY <1>1, <1>4, ConcatProperties
<1> DEFINE more == k < Len(x.send)
           rest == SubSeq(x.send, k + 1, Len(x.send))
           moved == x.sent \o SubSeq(x.send, 1, k)
           y == [x EXCEPT !.send = rest, !.sent = moved, !.writable = more,
                          !.wait = TRUE]
<1>7. more \in BOOLEAN
  BY <1>2
<1>8. Flushed(x, k) = y
  BY Zenon DEF Flushed
<1>9. rest \in Seq(Req \cup Inner) /\ moved \in Seq(Req \cup Inner)
  BY <1>5, <1>6 DEF Item
<1> HIDE DEF more, rest, moved
<1>10. y \in ConnectConn /\ y.link = x.link /\ y.status = x.status /\ y.sent = moved
  BY <1>7, <1>9 DEF ConnectConn
<1> QED BY <1>4, <1>8, <1>10 DEF moved

\* Opening sends nothing, and queues nothing if it fails.
LEMMA OpenedConn ==
    ASSUME NEW x \in ConnectConn, NEW y \in Opened(x)
    PROVE  /\ y \in ConnectConn
           /\ y.sent = x.sent
           /\ ~Open(y) => y.send = x.send
<1>1. Handshake \in Seq(Item)
  <2>1. {Setup, PingServ} \subseteq Item
    BY DEF Item, Inner
  <2> QED BY <2>1, PipelineAssumption, SeqMonotonic
<1>2. CASE y = [x EXCEPT !.link = "closed", !.status = "None", !.writable = FALSE]
  BY <1>2 DEF ConnectConn
<1>3. ASSUME NEW l \in {"connecting", "connected"},
             y = Send([x EXCEPT !.link = l, !.status = "Normal", !.writable = TRUE],
                      Handshake)
      PROVE  /\ y \in ConnectConn
             /\ y.sent = x.sent
             /\ Open(y)
  <2> DEFINE z == [x EXCEPT !.link = l, !.status = "Normal", !.writable = TRUE]
  <2>1. z \in ConnectConn /\ z.link = l /\ z.sent = x.sent
    BY DEF ConnectConn
  <2> HIDE DEF z
  <2>2. y = Send(z, Handshake)
    BY <1>3 DEF z
  <2> QED BY <2>1, <2>2, <1>1, SendConn DEF Open
<1> QED BY <1>2, <1>3 DEF Opened

\* Nor does getting a connection, which is open when it is given.
LEMMA SharedConn ==
    ASSUME NEW x \in ConnectConn, NEW failed \in BOOLEAN,
           NEW g \in GetShareConnection(x, failed)
    PROVE  /\ g.conn \in ConnectConn
           /\ g.got \in BOOLEAN
           /\ g.conn.sent = x.sent
           /\ g.got => Open(g.conn)
           /\ ~Open(g.conn) => ~Open(x) /\ g.conn.send = x.send
<1>1. CASE Open(x)
  <2>1. g = [conn |-> x, got |-> ~failed]
    BY <1>1 DEF GetShareConnection
  <2>2. (~failed) \in BOOLEAN
    OBVIOUS
  <2> QED BY <2>1, <2>2, <1>1
<1>2. CASE ~Open(x) /\ x.link = "closed" /\ failed
  <2>1. g = [conn |-> x, got |-> FALSE]
    BY <1>2 DEF GetShareConnection
  <2> QED BY <2>1, <1>2
<1>3. CASE ~Open(x) /\ ~(x.link = "closed" /\ failed)
  <2>1. PICK y \in Opened(x) : g = [conn |-> y, got |-> Open(y) /\ ~failed]
    BY <1>3 DEF GetShareConnection
  <2>2. (Open(y) /\ ~failed) \in BOOLEAN
    OBVIOUS
  <2>3. g.conn = y /\ (g.got <=> Open(y) /\ ~failed) /\ g.got \in BOOLEAN
    BY <2>1, <2>2
  <2> QED BY <2>3, <1>3, OpenedConn
<1> QED BY <1>1, <1>2, <1>3

-----------------------------------------------------------------------------
(* What the operations on a client keep of it.                             *)

\* A post event changes nothing else of a client.
LEMMA AddPostClient ==
    ASSUME NEW x \in AcceptConn, NEW e \in Event
    PROVE  /\ AddPost(x, e) \in AcceptConn
           /\ AddPost(x, e).fd = x.fd
           /\ AddPost(x, e).good = x.good
           /\ AddPost(x, e).requests = x.requests
           /\ AddPost(x, e).parsed = x.parsed
BY DEF AddPost, AcceptConn, Event

\* Reading a request queues it behind the others of its client.
LEMMA ParsedClient ==
    ASSUME TypeOK, NEW c \in Client, CanRead(c)
    PROVE  /\ Parsed(c) \in AcceptConn
           /\ Parsed(c).fd = cc[c].fd
           /\ Parsed(c).parsed = cc[c].parsed + 1
           /\ Parsed(c).requests = Append(cc[c].requests, NextReq(c))
           /\ NextReq(c) \in Req
<1>1. cc[c] \in AcceptConn
  BY DEF TypeOK
<1>2. cc[c].parsed \in 0..MaxReq - 1
  BY <1>1, PipelineAssumption DEF CanRead, AcceptConn
<1>3. NextReq(c) \in Req /\ cc[c].parsed + 1 \in 0..MaxReq
  BY <1>2, PipelineAssumption DEF NextReq, Req
<1>4. Append(cc[c].requests, NextReq(c)) \in Seq(Req)
  BY <1>1, <1>3, AppendProperties DEF AcceptConn
<1> QED BY <1>1, <1>3, <1>4 DEF Parsed, AcceptConn

\* Answering request r leaves all clients but for their post events as they
\* were, the client of r in state x.
LEMMA SetResponseClient ==
    ASSUME TypeOK, NEW r \in Req, NEW x \in AcceptConn, NEW a \in Answer,
           SetResponse(x, r, a)
    PROVE  /\ res' \in [Req -> Answer \cup {NoRes}]
           /\ res' = [res EXCEPT ![r] = a]
           /\ cc' \in [Client -> AcceptConn]
           /\ \A c \in Client \ {r[1]} : cc'[c] = cc[c]
           /\ cc'[r[1]].fd = x.fd
           /\ cc'[r[1]].good = x.good
           /\ cc'[r[1]].requests = x.requests
           /\ cc'[r[1]].parsed = x.parsed
<1>1. r[1] \in Client
  BY DEF Req
<1>2. res' = [res EXCEPT ![r] = a]
  BY DEF SetResponse
<1>3. PICK y \in {x, AddPost(x, "Write")} : cc' = [cc EXCEPT ![r[1]] = y]
  BY DEF SetResponse
<1>4. y \in AcceptConn /\ y.fd = x.fd /\ y.good = x.good
        /\ y.requests = x.requests /\ y.parsed = x.parsed
  BY <1>3, AddPostClient DEF Event
<1> QED BY <1>1, <1>2, <1>3, <1>4 DEF TypeOK

\* The post list of the clients is one of clients.
LEMMA EnterPostAType ==
    ASSUME TypeOK, NEW c \in Client, EnterPostA(c)
    PROVE  postA' \in Seq(Client)
BY AppendProperties DEF TypeOK, EnterPostA

\* That of the connections is one of servers.
LEMMA EnterPostSType ==
    ASSUME TypeOK, NEW s \in Server, EnterPostS(s)
    PROVE  postS' \in Seq(Server)
BY AppendProperties DEF TypeOK, EnterPostS

\* A reply the proxy makes is an answer.
LEMMA ProxyAnswer ==
    ASSUME NEW r \in Req
    PROVE  [kind |-> "proxy", of |-> r] \in Answer
BY DEF Answer

\* The front of sent is what the server answers.
LEMMA ReplyMatches ==
    ASSUME LinkInv, NEW s \in Server, CanReadReply(s)
    PROVE  /\ Head(wire[s]) = Head(sc[s].sent)
           /\ Head(sc[s].sent) \in Item
           /\ Tail(sc[s].sent) \in Seq(Item)
           /\ Tail(wire[s]) = Tail(sc[s].sent)
           /\ Open(sc[s])
<1>1. sc[s].sent = wire[s] /\ sc[s].sent # <<>> /\ Open(sc[s])
  BY DEF LinkInv, Linked, CanReadReply
<1>2. sc[s].sent \in Seq(Item)
  BY DEF LinkInv, TypeOK, ConnectConn, Item
<1> QED BY <1>1, <1>2, HeadTailProperties

-----------------------------------------------------------------------------
(* LinkInv is inductive.                                                   *)

\* Something else is sent on connection s.
LEMMA SentTaken ==
    ASSUME NEW f \in [Server -> ConnectConn], NEW s, NEW q \in Seq(Req \cup Inner)
    PROVE  /\ [f EXCEPT ![s].sent = q] \in [Server -> ConnectConn]
           /\ [f EXCEPT ![s].sent = q][s].link = f[s].link
<1>1. \A z \in ConnectConn : /\ [z EXCEPT !.sent = q] \in ConnectConn
                             /\ [z EXCEPT !.sent = q].link = z.link
  BY DEF ConnectConn
<1> QED BY <1>1

\* One connection changes, but not what was sent on it.
LEMMA ConnChanges ==
    ASSUME LinkInv, NEW s \in Server, NEW y \in ConnectConn,
           y.sent = sc[s].sent,
           ~Open(y) => ~Open(sc[s]) /\ y.send = sc[s].send,
           sc' = [sc EXCEPT ![s] = y], UNCHANGED <<wire, pc, cur>>
    PROVE  sc' \in [Server -> ConnectConn] /\ Linked'
BY DEF LinkInv, TypeOK, Linked

\* A response was read on connection s, and then connection t may have
\* changed, but not what was sent on it.
LEMMA ReplyRead ==
    ASSUME LinkInv, NEW s \in Server, NEW t \in Server, NEW y \in ConnectConn,
           CanReadReply(s),
           LET x == [sc EXCEPT ![s].sent = Tail(@)] IN
             /\ y.sent = x[t].sent
             /\ ~Open(y) => ~Open(x[t]) /\ y.send = x[t].send
             /\ sc' = [x EXCEPT ![t] = y],
           wire' = [wire EXCEPT ![s] = Tail(@)], UNCHANGED <<pc, cur>>
    PROVE  /\ sc' \in [Server -> ConnectConn]
           /\ wire' \in [Server -> Seq(Req \cup Inner)]
           /\ Linked'
<1> DEFINE x == [sc EXCEPT ![s].sent = Tail(@)]
<1>1. Tail(sc[s].sent) \in Seq(Item) /\ Tail(wire[s]) = Tail(sc[s].sent) /\ Open(sc[s])
  BY ReplyMatches
<1>2. x \in [Server -> ConnectConn]
  <2>1. sc \in [Server -> ConnectConn]
    BY DEF LinkInv, TypeOK
  <2>2. \A z \in ConnectConn : [z EXCEPT !.sent = Tail(sc[s].sent)] \in ConnectConn
    BY ONLY <1>1 DEF ConnectConn, Item
  <2> QED BY ONLY <2>1, <2>2
<1>3. x[s].sent = Tail(wire[s]) /\ Open(x[s])
  <2>1. sc \in [Server -> ConnectConn]
    BY DEF LinkInv, TypeOK
  <2>2. sc[s] \in ConnectConn
    BY <2>1
  <2>3. x[s] = [sc[s] EXCEPT !.sent = Tail(wire[s])]
    BY <1>1, <2>1
  <2> HIDE DEF x
  <2> QED BY ONLY <1>1, <2>2, <2>3 DEF ConnectConn, Open
<1>4. \A u \in Server \ {s} : x[u] = sc[u]
  BY DEF LinkInv, TypeOK
<1>5. wire' \in [Server -> Seq(Req \cup Inner)]
  BY <1>1 DEF LinkInv, TypeOK, Item
<1>6. pc = "wait"
  BY DEF CanReadReply
<1> HIDE DEF x
<1>7. sc' = [x EXCEPT ![t] = y] /\ y.sent = x[t].sent
        /\ (~Open(y) => ~Open(x[t]) /\ y.send = x[t].send)
  BY DEF x
<1>8. \A u \in Server : sc'[u].sent = x[u].sent
        /\ (~Open(sc'[u]) => ~Open(x[u]) /\ sc'[u].send = x[u].send)
  BY <1>2, <1>7
<1>9. \A u \in Server : wire'[u] = IF u = s THEN Tail(wire[s]) ELSE wire[u]
  BY DEF LinkInv, TypeOK
<1>10. Linked'
  <2> SUFFICES ASSUME NEW u \in Server
               PROVE  /\ ~Open(sc'[u]) => /\ sc'[u].send = <<>>
                                          /\ sc'[u].sent = <<>>
                                          /\ wire'[u] = <<>>
                      /\ sc'[u].sent = wire'[u]
    BY DEF Linked
  <2>1. CASE u = s
    BY <2>1, <1>3, <1>8, <1>9
  <2>2. CASE u # s
    <3>1. /\ ~Open(sc[u]) => sc[u].send = <<>> /\ sc[u].sent = <<>> /\ wire[u] = <<>>
          /\ sc[u].sent = wire[u]
      BY <1>6 DEF LinkInv, Linked
    <3>2. x[u] = sc[u] /\ wire'[u] = wire[u]
      BY <2>2, <1>4, <1>9
    <3>3. sc'[u].sent = sc[u].sent
      BY <3>2, <1>8
    <3>4. ~Open(sc'[u]) => ~Open(sc[u]) /\ sc'[u].send = sc[u].send
      BY <3>2, <1>8
    <3> QED BY <3>1, <3>2, <3>3, <3>4
  <2> QED BY <2>1, <2>2
<1> QED BY <1>2, <1>5, <1>7, <1>10

\* What epoll reports keeps LinkInv.
LEMMA SocketEventKeepsLink ==
    ASSUME LinkInv, SocketEvent
    PROVE  LinkInv'
<1> USE DEF LinkInv
<1>1. ASSUME NEW c \in Client, Accept(c)
      PROVE  LinkInv'
  <2>1. cc[c] \in AcceptConn
    BY DEF TypeOK
  <2>2. [cc[c] EXCEPT !.fd = "open"] \in AcceptConn
    BY ONLY <2>1 DEF AcceptConn
  <2>3. cc' = [cc EXCEPT ![c] = [cc[c] EXCEPT !.fd = "open"]]
    BY <1>1 DEF Accept
  <2>4. cc' \in [Client -> AcceptConn]
    BY <2>2, <2>3 DEF TypeOK
  <2> QED BY <1>1, <2>4 DEF Accept, TypeOK, Linked, loop
<1>2. ASSUME NEW c \in Client, ReadIgnored(c)
      PROVE  LinkInv'
  BY <1>2, ParsedClient DEF ReadIgnored, TypeOK, Linked, loop
<1>3. ASSUME NEW c \in Client, NEW quit \in BOOLEAN, ReadDirect(c, quit)
      PROVE  LinkInv'
  <2> DEFINE r == NextReq(c)
             x == [Parsed(c) EXCEPT !.closeASAP = quit]
  <2>1. r \in Req /\ x \in AcceptConn
    BY <1>3, ParsedClient DEF ReadDirect, AcceptConn
  <2>2. SetResponse(x, r, [kind |-> "proxy", of |-> r]) /\ EnterPostA(c)
    BY <1>3 DEF ReadDirect
  <2>3. res' \in [Req -> Answer \cup {NoRes}] /\ cc' \in [Client -> AcceptConn]
    BY <2>1, <2>2, SetResponseClient, ProxyAnswer
  <2>4. postA' \in Seq(Client)
    BY <2>2, EnterPostAType
  <2> QED BY <1>3, <2>1, <2>3, <2>4 DEF ReadDirect, TypeOK, Linked, loop
<1>4. ASSUME NEW c \in Client, ReadInvalid(c)
      PROVE  LinkInv'
  <2> DEFINE r == NextReq(c)
  <2>1. r \in Req /\ Parsed(c) \in AcceptConn
    BY <1>4, ParsedClient DEF ReadInvalid
  <2>2. SetResponse(Parsed(c), r, [kind |-> "proxy", of |-> r]) /\ EnterPostA(c)
    BY <1>4 DEF ReadInvalid
  <2>3. res' \in [Req -> Answer \cup {NoRes}] /\ cc' \in [Client -> AcceptConn]
    BY <2>1, <2>2, SetResponseClient, ProxyAnswer
  <2>4. postA' \in Seq(Client)
    BY <2>2, EnterPostAType
  <2> QED BY <1>4, <2>3, <2>4 DEF ReadInvalid, TypeOK, Linked, loop
<1>5. ASSUME NEW c \in Client, NEW s \in Server, ReadForward(c, s)
      PROVE  LinkInv'
  <2> DEFINE r == NextReq(c)
  <2>1. r \in Req /\ Parsed(c) \in AcceptConn
    BY <1>5, ParsedClient DEF ReadForward
  <2>2. sc[s] \in ConnectConn /\ fail[s] \in BOOLEAN
    BY DEF TypeOK
  <2>3. PICK g \in GetShareConnection(sc[s], fail[s]) :
              \/ /\ g.got /\ g.conn.status = "Normal"
                 /\ sc' = [sc EXCEPT ![s] = Send(g.conn, <<r>>)]
                 /\ cc' = [cc EXCEPT ![c] = Parsed(c)]
                 /\ UNCHANGED res
              \/ /\ ~(g.got /\ g.conn.status = "Normal")
                 /\ sc' = [sc EXCEPT ![s] = g.conn]
                 /\ SetResponse(Parsed(c), r, [kind |-> "proxy", of |-> r])
    BY <1>5 DEF ReadForward
  <2>4. /\ g.conn \in ConnectConn
        /\ g.conn.sent = sc[s].sent
        /\ g.got => Open(g.conn)
        /\ ~Open(g.conn) => ~Open(sc[s]) /\ g.conn.send = sc[s].send
    BY <2>2, SharedConn
  <2>5. /\ Send(g.conn, <<r>>) \in ConnectConn
        /\ Send(g.conn, <<r>>).sent = sc[s].sent
        /\ Open(g.conn) => Open(Send(g.conn, <<r>>))
    <3>1. <<r>> \in Seq(Item)
      BY <2>1 DEF Item
    <3> QED BY <2>4, <3>1, SendConn DEF Open
  <2>6. UNCHANGED <<wire, pc, cur>>
    BY <1>5 DEF ReadForward, loop
  <2>7. sc' \in [Server -> ConnectConn] /\ Linked'
    BY <2>3, <2>4, <2>5, <2>6, ConnChanges
  <2>8. res' \in [Req -> Answer \cup {NoRes}] /\ cc' \in [Client -> AcceptConn]
    BY <2>1, <2>3, SetResponseClient, ProxyAnswer DEF TypeOK
  <2>9. postA' \in Seq(Client) /\ postS' \in Seq(Server)
    BY <1>5, EnterPostAType, EnterPostSType DEF ReadForward
  <2> QED BY <1>5, <2>1, <2>7, <2>8, <2>9 DEF ReadForward, TypeOK, loop
<1>6. ASSUME NEW c \in Client, ClientError(c) \/ ClientWritable(c)
      PROVE  LinkInv'
  <2>1. cc[c] \in AcceptConn /\ [cc[c] EXCEPT !.good = FALSE] \in AcceptConn
    <3>1. cc[c] \in AcceptConn
      BY DEF TypeOK
    <3> QED BY ONLY <3>1 DEF AcceptConn
  <2>2. cc' \in [Client -> AcceptConn]
    <3>1. \/ cc' = [cc EXCEPT ![c] = AddPost([cc[c] EXCEPT !.good = FALSE], "Error")]
          \/ cc' = [cc EXCEPT ![c] = AddPost(cc[c], "Write")]
      BY ONLY <1>6 DEF ClientError, ClientWritable
    <3>2. /\ AddPost([cc[c] EXCEPT !.good = FALSE], "Error") \in AcceptConn
          /\ AddPost(cc[c], "Write") \in AcceptConn
      BY ONLY <2>1, AddPostClient DEF Event
    <3> QED BY <3>1, <3>2 DEF TypeOK
  <2>3. postA' \in Seq(Client)
    BY <1>6, EnterPostAType DEF ClientError, ClientWritable
  <2> QED BY <1>6, <2>2, <2>3 DEF ClientError, ClientWritable, TypeOK, Linked, loop
<1>7. ASSUME NEW s \in Server, NEW status \in {"IOError", "OtherError"},
             ServerWritable(s) \/ ServerError(s, status)
      PROVE  LinkInv'
  <2> DEFINE y == IF ServerWritable(s)
                  THEN AddPost([sc[s] EXCEPT !.link = "connected"], "Write")
                  ELSE AddPost([sc[s] EXCEPT !.status = status], "Error")
  <2>1. /\ sc[s] \in ConnectConn
        /\ [sc[s] EXCEPT !.link = "connected"] \in ConnectConn
        /\ [sc[s] EXCEPT !.link = "connected"].sent = sc[s].sent
        /\ [sc[s] EXCEPT !.link = "connected"].link = "connected"
        /\ [sc[s] EXCEPT !.status = status] \in ConnectConn
        /\ [sc[s] EXCEPT !.status = status].sent = sc[s].sent
        /\ [sc[s] EXCEPT !.status = status].link = sc[s].link
    <3>1. sc[s] \in ConnectConn /\ status \in {"IOError", "OtherError"}
      BY DEF TypeOK
    <3> QED BY ONLY <3>1 DEF ConnectConn
  <2>2. Open(sc[s])
    BY <1>7 DEF ServerWritable, ServerError
  <2>3. y \in ConnectConn /\ y.sent = sc[s].sent /\ Open(y)
    BY <2>1, <2>2, AddPostConn DEF Event, Open
  <2>4. UNCHANGED <<wire, pc, cur>> /\ sc' = [sc EXCEPT ![s] = y]
    BY <1>7 DEF ServerWritable, ServerError, loop
  <2> HIDE DEF y
  <2>5. sc' \in [Server -> ConnectConn] /\ Linked'
    BY <2>3, <2>4, ConnChanges
  <2>6. postS' \in Seq(Server)
    BY <1>7, EnterPostSType DEF ServerWritable, ServerError
  <2> QED BY <1>7, <2>5, <2>6 DEF ServerWritable, ServerError, TypeOK, loop
<1>8. ASSUME NEW s \in Server, NEW ok \in BOOLEAN, ReadInnerReply(s, ok)
      PROVE  LinkInv'
  <2> DEFINE q == Head(sc[s].sent)
             x == [sc[s] EXCEPT !.sent = Tail(@)]
             y == IF q = Setup /\ ~ok
                  THEN AddPost([x EXCEPT !.status = "LogicError"], "Error")
                  ELSE x
  <2>1. CanReadReply(s)
    BY <1>8 DEF ReadInnerReply
  <2>2. sc[s] \in ConnectConn /\ Tail(sc[s].sent) \in Seq(Req \cup Inner) /\ Open(sc[s])
    BY <2>1, ReplyMatches DEF TypeOK, Item
  <2>3. /\ x \in ConnectConn
        /\ x.sent = Tail(sc[s].sent)
        /\ x.link = sc[s].link
        /\ [x EXCEPT !.status = "LogicError"] \in ConnectConn
        /\ [x EXCEPT !.status = "LogicError"].sent = Tail(sc[s].sent)
        /\ [x EXCEPT !.status = "LogicError"].link = sc[s].link
    BY <2>2 DEF ConnectConn
  <2>4. y \in ConnectConn /\ y.sent = Tail(sc[s].sent) /\ Open(y)
    BY <2>2, <2>3, AddPostConn DEF Event, Open
  <2>5. sc' = [sc EXCEPT ![s] = y] /\ wire' = [wire EXCEPT ![s] = Tail(@)]
          /\ UNCHANGED <<pc, cur>>
    BY <1>8 DEF ReadInnerReply, loop
  <2> HIDE DEF y
  <2>6. LET z == [sc EXCEPT ![s].sent = Tail(@)] IN
          /\ y.sent = z[s].sent
          /\ sc' = [z EXCEPT ![s] = y]
    BY <2>4, <2>5 DEF TypeOK, ConnectConn
  <2>7. /\ sc' \in [Server -> ConnectConn]
        /\ wire' \in [Server -> Seq(Req \cup Inner)]
        /\ Linked'
    BY <2>1, <2>4, <2>5, <2>6, ReplyRead
  <2>8. fail' \in [Server -> BOOLEAN]
    <3>1. PICK b \in BOOLEAN : fail' = [fail EXCEPT ![s] = b]
      BY <1>8, Zenon DEF ReadInnerReply, TypeOK
    <3> QED BY <3>1 DEF TypeOK
  <2>9. postS' \in Seq(Server)
    BY <1>8, EnterPostSType DEF ReadInnerReply
  <2> QED BY <1>8, <2>7, <2>8, <2>9 DEF ReadInnerReply, TypeOK, loop
<1>9. ASSUME NEW s \in Server, ReadLateReply(s) \/ ReadReply(s)
      PROVE  LinkInv'
  <2> DEFINE q == Head(sc[s].sent)
             z == [sc EXCEPT ![s].sent = Tail(@)]
  <2>1. CanReadReply(s)
    BY <1>9 DEF ReadLateReply, ReadReply
  <2>2. /\ sc' = z
        /\ wire' = [wire EXCEPT ![s] = Tail(@)]
        /\ UNCHANGED <<pc, cur>>
    BY <1>9 DEF ReadLateReply, ReadReply, loop
  <2>3. Tail(sc[s].sent) \in Seq(Req \cup Inner) /\ Head(wire[s]) = q /\ Open(sc[s])
    BY <2>1, ReplyMatches DEF Item
  <2>4. z \in [Server -> ConnectConn] /\ z[s].link = sc[s].link
    <3>1. sc \in [Server -> ConnectConn]
      BY DEF TypeOK
    <3> QED BY ONLY <2>3, <3>1, SentTaken
  <2>5. Open(z[s])
    BY <2>3, <2>4 DEF Open
  <2>6. z[s] \in ConnectConn /\ z = [z EXCEPT ![s] = z[s]]
    BY <2>4
  <2>7. /\ sc' \in [Server -> ConnectConn]
        /\ wire' \in [Server -> Seq(Req \cup Inner)]
        /\ Linked'
    BY <2>1, <2>2, <2>5, <2>6, ReplyRead
  <2>8. CASE ReadLateReply(s)
    BY <2>7, <2>8 DEF ReadLateReply, TypeOK, loop
  <2>9. CASE ReadReply(s)
    <3>1. /\ q \in Req
          /\ SetResponse(cc[q[1]], q, [kind |-> "data", of |-> q])
          /\ EnterPostA(q[1])
      BY <2>3, <2>9 DEF ReadReply
    <3>2. q[1] \in Client /\ [kind |-> "data", of |-> q] \in Answer
      BY <3>1 DEF Req, Answer
    <3>3. cc[q[1]] \in AcceptConn
      BY <3>2 DEF TypeOK
    <3>4. res' \in [Req -> Answer \cup {NoRes}] /\ cc' \in [Client -> AcceptConn]
      BY <3>1, <3>2, <3>3, SetResponseClient
    <3>5. postA' \in Seq(Client)
      BY <3>1, <3>2, EnterPostAType
    <3> QED BY <2>7, <2>9, <3>4, <3>5 DEF ReadReply, TypeOK, loop
  <2> QED BY <1>9, <2>8, <2>9
<1>10. ASSUME NEW s \in Server, NEW kind \in {"moved", "ask"}, NEW t \in Server,
              ReadRedirection(s, kind, t)
       PROVE  LinkInv'
  <2> DEFINE q == Head(sc[s].sent)
             x == [sc EXCEPT ![s].sent = Tail(@)]
             a == [kind |-> kind, of |-> q, to |-> t]
  <2>1. CanReadReply(s)
    BY <1>10 DEF ReadRedirection
  <2>2. Tail(sc[s].sent) \in Seq(Req \cup Inner) /\ Head(wire[s]) = q /\ Open(sc[s])
    BY <2>1, ReplyMatches DEF Item
  <2>3. /\ q \in Req
        /\ redirects' = [redirects EXCEPT ![q] = @ + 1]
        /\ wire' = [wire EXCEPT ![s] = Tail(@)]
        /\ UNCHANGED <<delivered, fail, failures, pc, after, cur, out>>
        /\ EnterPostA(q[1]) /\ EnterPostS(t)
    BY <1>10 DEF ReadRedirection, loop
  <2>4. x \in [Server -> ConnectConn]
    <3>1. sc \in [Server -> ConnectConn]
      BY DEF TypeOK
    <3> QED BY ONLY <2>2, <3>1, SentTaken
  <2>5. x[t] \in ConnectConn /\ fail[t] \in BOOLEAN
    BY <2>4 DEF TypeOK
  <2>6. \/ sc' = x /\ SetResponse(cc[q[1]], q, a)
        \/ \E g \in GetShareConnection(x[t], fail[t]) :
             \/ sc' = [x EXCEPT ![t] = g.conn] /\ SetResponse(cc[q[1]], q, a)
             \/ /\ g.got
                /\ sc' = [x EXCEPT ![t] = Requeued(g.conn, kind, q)]
                /\ UNCHANGED <<cc, res>>
    BY <1>10, <2>2 DEF ReadRedirection
  <2>7. q[1] \in Client /\ a \in Answer /\ cc[q[1]] \in AcceptConn
    BY <2>3 DEF Req, Answer, TypeOK
  <2>8. SetResponse(cc[q[1]], q, a) =>
          res' \in [Req -> Answer \cup {NoRes}] /\ cc' \in [Client -> AcceptConn]
    BY <2>3, <2>7, SetResponseClient
  <2>9. res' \in [Req -> Answer \cup {NoRes}] /\ cc' \in [Client -> AcceptConn]
    BY <2>6, <2>8 DEF TypeOK
  <2>10. \A y \in ConnectConn :
           /\ y.sent = x[t].sent
           /\ ~Open(y) => ~Open(x[t]) /\ y.send = x[t].send
           /\ sc' = [x EXCEPT ![t] = y]
           => /\ sc' \in [Server -> ConnectConn]
              /\ wire' \in [Server -> Seq(Req \cup Inner)]
              /\ Linked'
    BY <2>1, <2>3, ReplyRead
  <2>11. /\ sc' \in [Server -> ConnectConn]
         /\ wire' \in [Server -> Seq(Req \cup Inner)]
         /\ Linked'
    <3> HIDE DEF x, a, q
    <3>1. CASE sc' = x
      <4>1. sc' = [x EXCEPT ![t] = x[t]]
        BY <3>1, <2>4
      <4> QED BY <4>1, <2>5, <2>10
    <3>2. ASSUME NEW g \in GetShareConnection(x[t], fail[t]),
                 sc' = [x EXCEPT ![t] = g.conn]
          PROVE  /\ sc' \in [Server -> ConnectConn]
                 /\ wire' \in [Server -> Seq(Req \cup Inner)]
                 /\ Linked'
      BY <3>2, <2>5, <2>10, SharedConn
    <3>3. ASSUME NEW g \in GetShareConnection(x[t], fail[t]), g.got,
                 sc' = [x EXCEPT ![t] = Requeued(g.conn, kind, q)]
          PROVE  /\ sc' \in [Server -> ConnectConn]
                 /\ wire' \in [Server -> Seq(Req \cup Inner)]
                 /\ Linked'
      <4>1. g.conn \in ConnectConn /\ g.conn.sent = x[t].sent /\ Open(g.conn)
        BY <3>3, <2>5, SharedConn
      <4>2. <<Asking, q>> \in Seq(Item) /\ <<q>> \in Seq(Item)
        BY <2>3 DEF Item, Inner, q
      <4>3. Requeued(g.conn, kind, q) \in ConnectConn
              /\ Requeued(g.conn, kind, q).sent = x[t].sent
              /\ Open(Requeued(g.conn, kind, q))
        BY <4>1, <4>2, SendConn DEF Requeued, Open
      <4> QED BY <3>3, <4>3, <2>10
    <3> QED BY <2>6, <3>1, <3>2, <3>3
  <2>12. redirects' \in [Req -> Nat]
    BY <2>3 DEF TypeOK
  <2>13. postA' \in Seq(Client) /\ postS' \in Seq(Server)
    BY <2>3, <2>7, EnterPostAType, EnterPostSType
  <2> QED BY <2>3, <2>9, <2>11, <2>12, <2>13 DEF TypeOK
<1> QED BY <1>1, <1>2, <1>3, <1>4, <1>5, <1>6, <1>7, <1>8, <1>9, <1>10 DEF SocketEvent

\* So does postEvent().
LEMMA PostStepKeepsLink ==
    ASSUME LinkInv, PostStep
    PROVE  LinkInv'
<1> USE DEF LinkInv
<1>1. CASE PostConnect
  <2> DEFINE s == Head(postS)
             x == [sc[s] EXCEPT !.post = {}]
             n == Len(x.send)
             writes == x.status = "Normal" /\ x.link = "connected" /\ sc[s].post = {"Write"}
  <2>1. pc = "postS" /\ postS # <<>> /\ postS' = Tail(postS)
          /\ UNCHANGED <<cc, delivered, res, redirects, postA, after, out>>
    BY <1>1 DEF PostConnect
  <2>2. s \in Server /\ Tail(postS) \in Seq(Server)
    BY <2>1, HeadTailProperties DEF TypeOK
  <2>3. sc[s] \in ConnectConn
    BY <2>2 DEF TypeOK
  <2>4. x \in ConnectConn /\ x.link = sc[s].link /\ x.sent = sc[s].sent
          /\ x.send = sc[s].send /\ x.status = sc[s].status
    BY <2>3 DEF ConnectConn
  <2>5. n \in Nat
    BY <2>4, LenProperties DEF ConnectConn
  <2> HIDE DEF s, x, n, writes
  <2>6. PICK k \in 0..n, bad \in BOOLEAN :
         LET y == IF ~writes THEN x
                  ELSE IF bad THEN [Flushed(x, k) EXCEPT !.status = "IOError",
                                                         !.writable = x.writable,
                                                         !.wait = x.wait]
                  ELSE Flushed(x, k)
             close == (y.status # "Normal" \/ "Error" \in sc[s].post) /\ Open(x)
         IN
           /\ ~writes => k = 0
           /\ bad => writes /\ k < n
           /\ sc' = [sc EXCEPT ![s] = y]
           /\ wire' = [wire EXCEPT ![s] = @ \o SubSeq(x.send, 1, k)]
           /\ pc' = IF close THEN "closing" ELSE pc
           /\ cur' = IF close THEN s ELSE cur
           /\ IF close /\ y.status = "IOError"
              THEN /\ failures' = [failures EXCEPT ![s] = IncrFail(@)]
                   /\ fail' = [fail EXCEPT ![s] = @ \/ failures'[s] = 0]
              ELSE UNCHANGED <<failures, fail>>
    BY ONLY <1>1, Zenon DEF PostConnect, s, x, n, writes
  <2> DEFINE y == IF ~writes THEN x
                  ELSE IF bad THEN [Flushed(x, k) EXCEPT !.status = "IOError",
                                                         !.writable = x.writable,
                                                         !.wait = x.wait]
                  ELSE Flushed(x, k)
             moved == SubSeq(x.send, 1, k)
  <2>7. k \in 0..Len(x.send)
    BY DEF n
  <2>8. /\ Flushed(x, k) \in ConnectConn
        /\ Flushed(x, k).link = x.link
        /\ Flushed(x, k).sent = x.sent \o moved
        /\ moved \in Seq(Item)
    BY <2>4, <2>7, FlushedConn
  <2>9. y \in ConnectConn /\ y.link = x.link
    <3>1. \A z \in ConnectConn :
            /\ [z EXCEPT !.status = "IOError", !.writable = x.writable, !.wait = x.wait]
                 \in ConnectConn
            /\ [z EXCEPT !.status = "IOError", !.writable = x.writable,
                         !.wait = x.wait].link = z.link
      <4>1. x.writable \in BOOLEAN /\ x.wait \in BOOLEAN
        BY ONLY <2>4 DEF ConnectConn
      <4> QED BY ONLY <4>1 DEF ConnectConn
    <3> QED BY ONLY <2>4, <2>8, <3>1
  <2>10. x.sent \in Seq(Item)
    BY <2>4 DEF ConnectConn, Item
  <2>11. ~writes => moved = <<>>
    BY <2>6, SubSeqEmpty
  <2>12. y.sent = x.sent \o moved
    <3>1. CASE ~writes
      BY <3>1, <2>10, <2>11, ConcatEmptySeq
    <3>2. CASE writes
      BY <3>2, <2>8 DEF ConnectConn
    <3> QED BY <3>1, <3>2
  <2>13. ~Open(x) => ~writes
    BY DEF Open, writes
  <2>14. ~Open(x) => y.send = x.send
    BY <2>13
  <2> HIDE DEF y, moved
  <2>15. sc' = [sc EXCEPT ![s] = y] /\ wire' = [wire EXCEPT ![s] = @ \o moved]
    BY <2>6 DEF y, moved
  <2>16. \/ UNCHANGED <<pc, cur>>
         \/ pc' = "closing" /\ cur' = s
    BY <2>6
  <2>17. sc' \in [Server -> ConnectConn] /\ wire' \in [Server -> Seq(Req \cup Inner)]
    <3>1. wire[s] \o moved \in Seq(Item)
      BY <2>2, <2>8, ConcatProperties DEF TypeOK, Item
    <3> QED BY <2>9, <2>15, <3>1 DEF TypeOK, Item
  <2>18. Linked'
    <3> SUFFICES ASSUME NEW u \in Server
                 PROVE  /\ ~Open(sc'[u]) => /\ sc'[u].send = <<>>
                                            /\ sc'[u].sent = <<>>
                                            /\ wire'[u] = <<>>
                        /\ ~(pc' = "closing" /\ cur' = u) => sc'[u].sent = wire'[u]
      BY DEF Linked
    <3>1. CASE u # s
      BY <3>1, <2>1, <2>15, <2>16 DEF TypeOK, Linked
    <3>2. CASE u = s
      <4>1. sc'[s] = y /\ wire'[s] = wire[s] \o moved
        BY <2>2, <2>15 DEF TypeOK
      <4>2. x.sent = wire[s]
        BY <2>1, <2>2, <2>4 DEF Linked
      <4>3. y.sent = wire'[s]
        BY <4>1, <4>2, <2>12
      <4>4. ASSUME ~Open(y)
            PROVE  y.send = <<>> /\ y.sent = <<>>
        <5>1. ~Open(x) /\ ~Open(sc[s])
          BY <4>4, <2>4, <2>9 DEF Open
        <5>2. y.send = <<>> /\ x.sent = <<>>
          BY <5>1, <2>2, <2>4, <2>14 DEF Linked
        <5>3. moved = <<>>
          BY <5>1, <2>11, <2>13
        <5>4. x.sent \o moved = <<>>
          BY ONLY <5>2, <5>3, ConcatEmptySeq, EmptySeq
        <5> QED BY ONLY <5>2, <5>4, <2>12
      <4> QED BY <3>2, <4>1, <4>3, <4>4
    <3> QED BY <3>1, <3>2
  <2>19. failures' \in [Server -> 0..FailureLimit - 1] /\ fail' \in [Server -> BOOLEAN]
    <3>1. IncrFail(failures[s]) \in 0..FailureLimit - 1
      <4>1. failures[s] \in 0..FailureLimit - 1
        BY <2>2 DEF TypeOK
      <4> QED BY ONLY <4>1, PipelineAssumption DEF IncrFail
    <3>2. (fail[s] \/ failures'[s] = 0) \in BOOLEAN
      BY <2>2 DEF TypeOK
    <3> DEFINE b == fail[s] \/ failures'[s] = 0
    <3>3. \/ /\ failures' = [failures EXCEPT ![s] = IncrFail(@)]
             /\ fail' = [fail EXCEPT ![s] = b]
          \/ UNCHANGED <<failures, fail>>
      BY <2>6, Zenon
    <3> HIDE DEF b
    <3>4. b \in BOOLEAN
      BY <3>2 DEF b
    <3> QED BY <3>1, <3>3, <3>4 DEF TypeOK
  <2> QED BY <2>1, <2>2, <2>16, <2>17, <2>18, <2>19 DEF TypeOK
<1>2. ASSUME NEW q \in Req \cup Inner, CloseRequest(q)
      PROVE  LinkInv'
  <2>1. /\ pc = "closing" /\ cur \in Server /\ sc[cur] \in ConnectConn
        /\ UNCHANGED <<delivered, redirects, fail, failures, postS, pc, after,
                       cur, wire, out>>
    BY <1>2 DEF CloseRequest, TypeOK, loop
  <2>2. PICK y \in ConnectConn : y.link = sc[cur].link /\ sc' = [sc EXCEPT ![cur] = y]
    <3>1. CASE sc[cur].sent # <<>> /\ sc' = [sc EXCEPT ![cur].sent = Tail(@)]
      <4> DEFINE y == [sc[cur] EXCEPT !.sent = Tail(@)]
      <4>1. Tail(sc[cur].sent) \in Seq(Req \cup Inner)
        BY <2>1, <3>1, HeadTailProperties DEF ConnectConn
      <4>2. y \in ConnectConn /\ y.link = sc[cur].link
        BY <2>1, <4>1 DEF ConnectConn
      <4> QED BY <3>1, <4>2
    <3>2. CASE sc[cur].send # <<>> /\ sc' = [sc EXCEPT ![cur].send = Tail(@)]
      <4> DEFINE y == [sc[cur] EXCEPT !.send = Tail(@)]
      <4>1. Tail(sc[cur].send) \in Seq(Req \cup Inner)
        BY <2>1, <3>2, HeadTailProperties DEF ConnectConn
      <4>2. y \in ConnectConn /\ y.link = sc[cur].link
        BY <2>1, <4>1 DEF ConnectConn
      <4> QED BY <3>2, <4>2
    <3> QED BY <1>2, <3>1, <3>2 DEF CloseRequest
  <2>3. Open(sc[cur])
    BY <1>2, <2>1 DEF CloseRequest, Linked
  <2>4. Open(y)
    BY <2>2, <2>3 DEF Open
  <2>5. sc' \in [Server -> ConnectConn] /\ Linked'
    BY <2>1, <2>2, <2>4 DEF TypeOK, Linked
  <2>6. /\ res' \in [Req -> Answer \cup {NoRes}]
        /\ cc' \in [Client -> AcceptConn]
        /\ postA' \in Seq(Client)
    <3>1. CASE Answerable(q)
      <4>1. q \in Req /\ q[1] \in Client /\ cc[q[1]] \in AcceptConn
        BY <3>1 DEF Answerable, Req, TypeOK
      <4>2. SetResponse(cc[q[1]], q, [kind |-> "proxy", of |-> q]) /\ EnterPostA(q[1])
        BY <1>2, <3>1 DEF CloseRequest
      <4> QED BY <4>1, <4>2, SetResponseClient, ProxyAnswer, EnterPostAType
    <3>2. CASE ~Answerable(q)
      BY <1>2, <3>2 DEF CloseRequest, TypeOK
    <3> QED BY <3>1, <3>2
  <2> QED BY <2>1, <2>5, <2>6 DEF TypeOK
<1>3. CASE CloseSocket
  <2>1. /\ pc = "closing" /\ cur \in Server /\ sc[cur] \in ConnectConn
        /\ sc[cur].sent = <<>> /\ sc[cur].send = <<>>
        /\ wire' = [wire EXCEPT ![cur] = <<>>]
        /\ pc' = "postS"
        /\ UNCHANGED <<cc, delivered, res, redirects, fail, failures, postA,
                       postS, after, cur, out>>
    BY <1>3 DEF CloseSocket, TypeOK
  <2> DEFINE y == [sc[cur] EXCEPT !.link = "closed", !.status = "None", !.writable = FALSE]
  <2>2. y \in ConnectConn /\ y.sent = <<>> /\ y.send = <<>>
    BY <2>1 DEF ConnectConn
  <2>3. sc' = [sc EXCEPT ![cur] = y]
    BY <1>3, <2>1 DEF CloseSocket, TypeOK, ConnectConn
  <2> HIDE DEF y
  <2>4. sc' \in [Server -> ConnectConn] /\ wire' \in [Server -> Seq(Req \cup Inner)]
    BY <2>1, <2>2, <2>3, EmptySeq DEF TypeOK
  <2>5. Linked'
    BY <2>1, <2>2, <2>3 DEF TypeOK, Linked
  <2> QED BY <2>1, <2>4, <2>5 DEF TypeOK
<1>4. CASE TurnToAccept
  BY <1>4 DEF TurnToAccept, TypeOK, Linked
<1>5. CASE PostAccept
  <2> DEFINE c == Head(postA)
             x == [cc[c] EXCEPT !.post = {}]
             n == Len(x.requests)
             writes == x.good /\ "Write" \in cc[c].post
  <2>1. /\ pc = "postA" /\ postA # <<>> /\ postA' = Tail(postA)
        /\ UNCHANGED <<sc, delivered, res, redirects, fail, failures, postS, pc,
                       after, cur, wire>>
    BY <1>5 DEF PostAccept, loop
  <2>2. c \in Client /\ Tail(postA) \in Seq(Client)
    BY <2>1, HeadTailProperties DEF TypeOK
  <2>3. x \in AcceptConn
    <3>1. cc[c] \in AcceptConn
      BY <2>2 DEF TypeOK
    <3> QED BY ONLY <3>1 DEF AcceptConn
  <2>4. x.requests \in Seq(Req) /\ n \in Nat
    BY <2>3, LenProperties DEF AcceptConn
  <2> HIDE DEF c, x, n, writes
  <2>5. PICK k \in 0..n, bad \in BOOLEAN :
          LET finished == k = n \/ ~Done(x.requests[k + 1])
              y == IF writes
                   THEN [x EXCEPT !.requests = SubSeq(@, k + 1, n),
                                  !.good = ~bad /\ ~(finished /\ x.closeASAP),
                                  !.writable = ~finished]
                   ELSE x
          IN
            /\ ~writes => k = 0
            /\ bad => writes /\ ~finished
            /\ \A i \in 1..k : Done(x.requests[i])
            /\ cc' = [cc EXCEPT ![c] =
                        IF (~y.good \/ "Error" \in cc[c].post) /\ y.fd = "open"
                        THEN [y EXCEPT !.fd = "closed", !.requests = <<>>, !.writable = FALSE]
                        ELSE y]
            /\ out' = [out EXCEPT ![c] = @ \o [i \in 1..k |-> res[x.requests[i]]]]
    BY ONLY <1>5, Zenon DEF PostAccept, c, x, n, writes
  <2> DEFINE finished == k = n \/ ~Done(x.requests[k + 1])
             good == ~bad /\ ~(finished /\ x.closeASAP)
             wr == ~finished
             rest == SubSeq(x.requests, k + 1, n)
             y == IF writes
                  THEN [x EXCEPT !.requests = rest, !.good = good, !.writable = wr]
                  ELSE x
             z == [y EXCEPT !.fd = "closed", !.requests = <<>>, !.writable = FALSE]
             shown == [i \in 1..k |-> res[x.requests[i]]]
  <2>6. \A i \in 1..n : x.requests[i] \in Req
    BY <2>4, ElementOfSeq DEF n
  <2>7. rest \in Seq(Req)
    <3>1. \A i \in k + 1..n : x.requests[i] \in Req
      BY <2>4, <2>6
    <3> QED BY <2>4, <3>1, SubSeqProperties
  <2>8. good \in BOOLEAN /\ wr \in BOOLEAN
    OBVIOUS
  <2>9. out' = [out EXCEPT ![c] = @ \o shown]
    BY <2>5
  <2>10. cc' = [cc EXCEPT ![c] = z] \/ cc' = [cc EXCEPT ![c] = y]
    BY <2>5
  <2>11. shown \in Seq(Answer)
    <3>1. \A i \in 1..k : res[x.requests[i]] \in Answer
      BY <2>4, <2>5, <2>6 DEF Done, TypeOK
    <3>2. shown \in [1..k -> Answer] /\ k \in Nat
      BY <2>4, <3>1
    <3> QED BY <3>2
  <2>12. y \in AcceptConn
    <3> HIDE DEF rest, good, wr
    <3> QED BY <2>3, <2>7, <2>8 DEF AcceptConn
  <2> HIDE DEF y, shown
  <2>13. z \in AcceptConn
    BY <2>12, EmptySeq DEF AcceptConn
  <2> HIDE DEF z
  <2>14. cc' \in [Client -> AcceptConn]
    BY <2>2, <2>10, <2>12, <2>13 DEF TypeOK
  <2>15. out' \in [Client -> Seq(Answer)]
    <3>1. out[c] \o shown \in Seq(Answer)
      BY <2>2, <2>11, ConcatProperties DEF TypeOK
    <3> QED BY <2>9, <3>1 DEF TypeOK
  <2> QED BY <2>1, <2>2, <2>14, <2>15 DEF TypeOK, Linked
<1>6. CASE EndPost
  BY <1>6 DEF EndPost, TypeOK, Linked
<1> QED BY <1>1, <1>2, <1>3, <1>4, <1>5, <1>6 DEF PostStep

\* So do the checks of each round.
LEMMA CheckStepKeepsLink ==
    ASSUME LinkInv, CheckStep
    PROVE  LinkInv'
<1> USE DEF LinkInv
<1>1. ASSUME NEW c \in Client, IdleClient(c)
      PROVE  LinkInv'
  <2>1. cc' \in [Client -> AcceptConn]
    BY <1>1, AddPostClient DEF IdleClient, TypeOK, Event
  <2>2. postA' \in Seq(Client)
    BY <1>1, EnterPostAType DEF IdleClient
  <2> QED BY <1>1, <2>1, <2>2 DEF IdleClient, TypeOK, Linked
<1>2. CASE NoIdleClient
  BY <1>2 DEF NoIdleClient, TypeOK, Linked
<1>3. ASSUME NEW s \in Server, CheckPool(s)
      PROVE  LinkInv'
  <2>1. sc[s] \in ConnectConn
    BY DEF TypeOK
  <2>2. PICK y \in Opened(sc[s]) : sc' = [sc EXCEPT ![s] = y]
    BY <1>3 DEF CheckPool
  <2>3. sc' \in [Server -> ConnectConn] /\ Linked'
    <3>1. y \in ConnectConn /\ y.sent = sc[s].sent /\ (~Open(y) => y.send = sc[s].send)
      BY <2>1, OpenedConn
    <3>2. ~Open(sc[s])
      BY <1>3 DEF CheckPool, Open
    <3>3. UNCHANGED <<wire, pc, cur>>
      BY <1>3 DEF CheckPool, loop
    <3> QED BY <2>2, <3>1, <3>2, <3>3, ConnChanges
  <2>4. postS' \in Seq(Server)
    BY <1>3, EnterPostSType DEF CheckPool
  <2> QED BY <1>3, <2>3, <2>4 DEF CheckPool, TypeOK, loop
<1>4. CASE EndCheckPool
  BY <1>4 DEF EndCheckPool, TypeOK, Linked
<1>5. ASSUME NEW s \in Server, TimedOut(s)
      PROVE  LinkInv'
  <2> DEFINE x == [sc[s] EXCEPT !.status = "OtherError", !.wait = FALSE]
  <2>1. sc[s] \in ConnectConn /\ x \in ConnectConn /\ x.link = sc[s].link
          /\ x.sent = sc[s].sent /\ x.send = sc[s].send
    <3>1. sc[s] \in ConnectConn
      BY DEF TypeOK
    <3> QED BY ONLY <3>1 DEF ConnectConn
  <2>2. sc' = [sc EXCEPT ![s] = AddPost(x, "Error")] /\ UNCHANGED <<wire, pc, cur>>
    BY <1>5 DEF TimedOut, loop
  <2> HIDE DEF x
  <2>3. sc' \in [Server -> ConnectConn] /\ Linked'
    BY <2>1, <2>2, AddPostConn, ConnChanges DEF Event, Open
  <2>4. postS' \in Seq(Server)
    BY <1>5, EnterPostSType DEF TimedOut
  <2> QED BY <1>5, <2>3, <2>4 DEF TimedOut, TypeOK, loop
<1>6. CASE EndServerTimeout
  <2>1. \A s \in Server :
          LET y == [sc[s] EXCEPT !.wait = @ /\ Waiting(sc[s])] IN
            /\ y \in ConnectConn
            /\ y.link = sc[s].link /\ y.sent = sc[s].sent /\ y.send = sc[s].send
    <3> TAKE s \in Server
    <3> DEFINE b == sc[s].wait /\ Waiting(sc[s])
    <3>1. b \in BOOLEAN /\ sc[s] \in ConnectConn
      BY DEF TypeOK
    <3> HIDE DEF b
    <3>2. LET y == [sc[s] EXCEPT !.wait = b] IN
            /\ y \in ConnectConn
            /\ y.link = sc[s].link /\ y.sent = sc[s].sent /\ y.send = sc[s].send
      BY <3>1 DEF ConnectConn
    <3> QED BY <3>2 DEF b
  <2>2. sc' \in [Server -> ConnectConn]
    BY <1>6, <2>1 DEF EndServerTimeout
  <2>3. Linked'
    BY <1>6, <2>1 DEF EndServerTimeout, Linked, Open
  <2> QED BY <1>6, <2>2, <2>3 DEF EndServerTimeout, TypeOK
<1> QED BY <1>1, <1>2, <1>3, <1>4, <1>5, <1>6 DEF CheckStep

\* Every step keeps LinkInv.
LEMMA StepKeepsLink ==
    ASSUME LinkInv, [Next]_vars
    PROVE  LinkInv'
<1>1. CASE SocketEvent
  BY <1>1, SocketEventKeepsLink
<1>2. CASE EndWait
  BY <1>2 DEF EndWait, LinkInv, TypeOK, Linked
<1>3. CASE PostStep
  BY <1>3, PostStepKeepsLink
<1>4. CASE CheckStep
  BY <1>4, CheckStepKeepsLink
<1>5. CASE UNCHANGED vars
  BY <1>5 DEF vars, LinkInv, TypeOK, Linked
<1> QED BY <1>1, <1>2, <1>3, <1>4, <1>5 DEF Next

\* On every reachable state the state is well typed, and what was sent on an
\* open connection is what its server has yet to answer.
THEOREM LinkInvariant == Spec => []LinkInv
<1>1. Init => LinkInv
  <2> SUFFICES ASSUME Init PROVE LinkInv
    OBVIOUS
  <2>1. TypeOK
    BY PipelineAssumption, EmptySeq
    DEF Init, TypeOK, AcceptConn, ConnectConn, NoRes, Event
  <2>2. Linked
    BY DEF Init, Linked, Open
  <2> QED BY <2>1, <2>2 DEF LinkInv
<1>2. LinkInv /\ [Next]_vars => LinkInv'
  BY StepKeepsLink
<1> QED BY <1>1, <1>2, PTL DEF Spec

\* The state is always well typed.
THEOREM TypeCorrect == Spec => []TypeOK
<1>1. LinkInv => TypeOK
  BY DEF LinkInv
<1> QED BY <1>1, LinkInvariant, PTL

\* A response is always matched with the request it answers: sent holds
\* exactly what the server of the connection has yet to answer.
THEOREM MatchedAlways == Spec => []Matched
<1>1. LinkInv => Matched
  BY DEF LinkInv, Linked, Matched
<1> QED BY <1>1, LinkInvariant, PTL

-----------------------------------------------------------------------------
(* The answers of a client: its own, in the order of its requests.         *)

\* The requests of a client that wait are those that were read and whose
\* answers were not written, in their order.
Pipelined ==
    \A c \in Client :
      /\ cc[c].fd # "closed" => Len(cc[c].requests) + Len(out[c]) = cc[c].parsed
      /\ \A i \in 1..Len(cc[c].requests) : cc[c].requests[i] = <<c, Len(out[c]) + i>>

\* An answer was made for the request that has it.
OwnAnswers == \A r \in Req : Done(r) => res[r].of = r

OrderInv == OwnAnswers /\ Pipelined /\ InOrder

\* A new answer that was made for its request is an own one.
LEMMA AnswerGiven ==
    ASSUME TypeOK, OwnAnswers, NEW r \in Req, NEW a, a.of = r,
           res' = [res EXCEPT ![r] = a]
    PROVE  OwnAnswers'
BY DEF TypeOK, OwnAnswers, Done

\* Steps that leave the requests and answers of clients keep Pipelined.
LEMMA ClientsKept ==
    ASSUME Pipelined, out' = out,
           \A c \in Client : /\ cc'[c].fd # "closed" => cc[c].fd # "closed"
                             /\ cc'[c].requests = cc[c].requests
                             /\ cc'[c].parsed = cc[c].parsed
    PROVE  Pipelined'
BY DEF Pipelined

\* So does reading a request.
LEMMA ClientReads ==
    ASSUME TypeOK, Pipelined, NEW c \in Client, CanRead(c), out' = out,
           cc'[c].requests = Parsed(c).requests, cc'[c].parsed = Parsed(c).parsed,
           \A d \in Client \ {c} : cc'[d] = cc[d]
    PROVE  Pipelined'
<1>1. cc[c].requests \in Seq(Req) /\ out[c] \in Seq(Answer) /\ cc[c].parsed \in Nat
  BY PipelineAssumption DEF TypeOK, AcceptConn
<1>2. cc[c].fd # "closed"
  BY DEF CanRead, Live
<1>3. Len(cc[c].requests) \in Nat /\ Len(out[c]) \in Nat
  BY <1>1, LenProperties
<1>4. /\ cc'[c].requests = Append(cc[c].requests, NextReq(c))
      /\ cc'[c].parsed = cc[c].parsed + 1
      /\ NextReq(c) \in Req
  BY ParsedClient
<1>5. /\ Len(cc'[c].requests) = Len(cc[c].requests) + 1
      /\ \A i \in 1..Len(cc[c].requests) : cc'[c].requests[i] = cc[c].requests[i]
      /\ cc'[c].requests[Len(cc[c].requests) + 1] = NextReq(c)
  BY <1>1, <1>4, AppendProperties
<1>6. /\ Len(cc[c].requests) + Len(out[c]) = cc[c].parsed
      /\ \A i \in 1..Len(cc[c].requests) : cc[c].requests[i] = <<c, Len(out[c]) + i>>
  BY <1>2 DEF Pipelined
<1> DEFINE m == Len(cc[c].requests)
           n == Len(out[c])
           p == cc[c].parsed
<1>7. NextReq(c) = <<c, n + (m + 1)>> /\ m + 1 + n = p + 1
  <2>1. m \in Nat /\ n \in Nat /\ p \in Nat /\ m + n = p
    BY <1>1, <1>3, <1>6
  <2>2. NextReq(c) = <<c, p + 1>>
    BY DEF NextReq
  <2> HIDE DEF m, n, p
  <2> QED BY <2>1, <2>2
<1>8. /\ Len(cc'[c].requests) + Len(out[c]) = cc'[c].parsed
      /\ \A i \in 1..Len(cc'[c].requests) : cc'[c].requests[i] = <<c, Len(out[c]) + i>>
  <2>1. Len(cc'[c].requests) + Len(out[c]) = cc'[c].parsed
    BY <1>4, <1>5, <1>7
  <2>2. ASSUME NEW i \in 1..Len(cc'[c].requests)
        PROVE  cc'[c].requests[i] = <<c, Len(out[c]) + i>>
    <3>1. i \in 1..Len(cc[c].requests) \/ i = Len(cc[c].requests) + 1
      BY <1>3, <1>5
    <3> QED BY <3>1, <1>5, <1>6, <1>7
  <2> QED BY <2>1, <2>2
<1> QED BY <1>8 DEF Pipelined

\* Request r is answered and nothing else becomes of its client.
LEMMA RequestAnswered ==
    ASSUME TypeOK, OrderInv, NEW r \in Req, NEW a \in Answer, a.of = r,
           SetResponse(cc[r[1]], r, a), out' = out
    PROVE  OrderInv'
<1>1. r[1] \in Client /\ cc[r[1]] \in AcceptConn
  BY DEF TypeOK, Req
<1>2. /\ res' = [res EXCEPT ![r] = a]
      /\ \A c \in Client \ {r[1]} : cc'[c] = cc[c]
      /\ cc'[r[1]].fd = cc[r[1]].fd
      /\ cc'[r[1]].requests = cc[r[1]].requests
      /\ cc'[r[1]].parsed = cc[r[1]].parsed
  BY <1>1, SetResponseClient
<1>3. OwnAnswers'
  BY <1>2, AnswerGiven DEF OrderInv
<1>4. Pipelined'
  <2>1. \A c \in Client : /\ cc'[c].fd = cc[c].fd
                          /\ cc'[c].requests = cc[c].requests
                          /\ cc'[c].parsed = cc[c].parsed
    BY <1>2
  <2> QED BY <2>1, ClientsKept DEF OrderInv
<1> QED BY <1>3, <1>4 DEF OrderInv, InOrder

\* Client c has sent a request that is answered at once.
LEMMA ReadAndAnswered ==
    ASSUME TypeOK, OrderInv, NEW c \in Client, CanRead(c), NEW x \in AcceptConn,
           x.requests = Parsed(c).requests, x.parsed = Parsed(c).parsed,
           SetResponse(x, NextReq(c), [kind |-> "proxy", of |-> NextReq(c)]),
           out' = out
    PROVE  OrderInv'
<1> DEFINE r == NextReq(c)
           a == [kind |-> "proxy", of |-> r]
<1>1. r \in Req /\ r[1] = c /\ a \in Answer /\ a.of = r
  BY ParsedClient, ProxyAnswer DEF NextReq
<1> HIDE DEF a
<1>2. SetResponse(x, r, a)
  BY DEF a
<1> HIDE DEF r
<1>3. /\ res' = [res EXCEPT ![r] = a]
      /\ \A d \in Client \ {c} : cc'[d] = cc[d]
      /\ cc'[c].requests = x.requests
      /\ cc'[c].parsed = x.parsed
  BY <1>1, <1>2, SetResponseClient
<1>4. OwnAnswers'
  BY <1>1, <1>3, AnswerGiven DEF OrderInv
<1>5. Pipelined'
  BY <1>3, ClientReads DEF OrderInv
<1> QED BY <1>4, <1>5 DEF OrderInv, InOrder

\* A step that leaves clients and answers alone keeps OrderInv.
LEMMA ClientsUntouched ==
    ASSUME OrderInv, UNCHANGED <<cc, res, out>>
    PROVE  OrderInv'
BY DEF OrderInv, OwnAnswers, Done, Pipelined, InOrder

\* What epoll reports keeps OrderInv.
LEMMA SocketEventKeepsOrder ==
    ASSUME LinkInv, OrderInv, SocketEvent
    PROVE  OrderInv'
<1>0. TypeOK
  BY DEF LinkInv
<1>1. ASSUME NEW c \in Client,
             Accept(c) \/ ClientError(c) \/ ClientWritable(c)
      PROVE  OrderInv'
  <2>1. UNCHANGED <<res, out>>
    BY <1>1 DEF Accept, ClientError, ClientWritable
  <2>2. \A d \in Client : /\ cc'[d].fd # "closed" => cc[d].fd # "closed"
                          /\ cc'[d].requests = cc[d].requests
                          /\ cc'[d].parsed = cc[d].parsed
    <3>1. /\ cc[c] \in AcceptConn
          /\ [cc[c] EXCEPT !.good = FALSE] \in AcceptConn
          /\ [cc[c] EXCEPT !.good = FALSE].fd = cc[c].fd
          /\ [cc[c] EXCEPT !.good = FALSE].requests = cc[c].requests
          /\ [cc[c] EXCEPT !.good = FALSE].parsed = cc[c].parsed
      BY <1>0 DEF TypeOK, AcceptConn
    <3>2. CASE Accept(c)
      BY <1>0, <3>1, <3>2 DEF Accept, TypeOK, AcceptConn
    <3>3. CASE ClientError(c)
      BY <1>0, <3>1, <3>3, AddPostClient DEF ClientError, TypeOK, Event
    <3>4. CASE ClientWritable(c)
      BY <1>0, <3>1, <3>4, AddPostClient DEF ClientWritable, TypeOK, Event
    <3> QED BY <1>1, <3>2, <3>3, <3>4
  <2>3. Pipelined'
    BY <2>1, <2>2, ClientsKept DEF OrderInv
  <2> QED BY <2>1, <2>3 DEF OrderInv, OwnAnswers, Done, InOrder
<1>2. ASSUME NEW c \in Client, CanRead(c), cc' = [cc EXCEPT ![c] = Parsed(c)],
             UNCHANGED <<res, out>>
      PROVE  OrderInv'
  <2>1. cc'[c] = Parsed(c) /\ \A d \in Client \ {c} : cc'[d] = cc[d]
    BY <1>0, <1>2 DEF TypeOK
  <2>2. Pipelined'
    BY <1>0, <1>2, <2>1, ClientReads DEF OrderInv
  <2> QED BY <1>2, <2>2 DEF OrderInv, OwnAnswers, Done, InOrder
<1>3. ASSUME NEW c \in Client, ReadIgnored(c)
      PROVE  OrderInv'
  BY <1>2, <1>3 DEF ReadIgnored
<1>4. ASSUME NEW c \in Client, NEW quit \in BOOLEAN, ReadDirect(c, quit)
      PROVE  OrderInv'
  <2> DEFINE x == [Parsed(c) EXCEPT !.closeASAP = quit]
  <2>1. CanRead(c) /\ out' = out
          /\ SetResponse(x, NextReq(c), [kind |-> "proxy", of |-> NextReq(c)])
    BY <1>4 DEF ReadDirect
  <2>2. x \in AcceptConn /\ x.requests = Parsed(c).requests /\ x.parsed = Parsed(c).parsed
    <3>1. Parsed(c) \in AcceptConn
      BY <1>0, <2>1, ParsedClient
    <3> QED BY <3>1 DEF AcceptConn
  <2> HIDE DEF x
  <2> QED BY <1>0, <2>1, <2>2, ReadAndAnswered
<1>5. ASSUME NEW c \in Client, ReadInvalid(c)
      PROVE  OrderInv'
  BY <1>0, <1>5, ParsedClient, ReadAndAnswered DEF ReadInvalid
<1>6. ASSUME NEW c \in Client, NEW s \in Server, ReadForward(c, s)
      PROVE  OrderInv'
  <2>1. CanRead(c) /\ UNCHANGED out
    BY <1>6 DEF ReadForward
  <2>2. \/ cc' = [cc EXCEPT ![c] = Parsed(c)] /\ UNCHANGED res
        \/ SetResponse(Parsed(c), NextReq(c), [kind |-> "proxy", of |-> NextReq(c)])
    BY <1>6 DEF ReadForward
  <2> QED BY <1>0, <1>2, <2>1, <2>2, ParsedClient, ReadAndAnswered
<1>7. ASSUME NEW s \in Server,
             \/ ServerWritable(s)
             \/ \E status \in {"IOError", "OtherError"} : ServerError(s, status)
             \/ \E ok \in BOOLEAN : ReadInnerReply(s, ok)
             \/ ReadLateReply(s)
      PROVE  OrderInv'
  <2>1. UNCHANGED <<cc, res, out>>
    BY <1>7 DEF ServerWritable, ServerError, ReadInnerReply, ReadLateReply
  <2> QED BY <2>1, ClientsUntouched
<1>8. ASSUME NEW s \in Server, ReadReply(s)
      PROVE  OrderInv'
  <2> DEFINE q == Head(sc[s].sent)
             a == [kind |-> "data", of |-> Head(wire[s])]
  <2>1. CanReadReply(s) /\ q \in Req /\ SetResponse(cc[q[1]], q, a) /\ out' = out
    BY <1>8 DEF ReadReply
  <2>2. Head(wire[s]) = q
    BY <2>1, ReplyMatches
  <2>3. a \in Answer /\ a.of = q
    BY <2>1, <2>2 DEF Answer
  <2> HIDE DEF a, q
  <2> QED BY <1>0, <2>1, <2>3, RequestAnswered
<1>9. ASSUME NEW s \in Server, NEW kind \in {"moved", "ask"}, NEW t \in Server,
             ReadRedirection(s, kind, t)
      PROVE  OrderInv'
  <2> DEFINE q == Head(sc[s].sent)
             a == [kind |-> kind, of |-> Head(wire[s]), to |-> t]
  <2>1. CanReadReply(s) /\ q \in Req /\ out' = out
    BY <1>9 DEF ReadRedirection
  <2>2. SetResponse(cc[q[1]], q, a) \/ UNCHANGED <<cc, res>>
    BY <1>9 DEF ReadRedirection
  <2>3. Head(wire[s]) = q
    BY <2>1, ReplyMatches
  <2>4. a \in Answer /\ a.of = q
    BY <2>1, <2>3 DEF Answer
  <2> HIDE DEF a, q
  <2> QED BY <1>0, <2>1, <2>2, <2>4, RequestAnswered, ClientsUntouched
<1> QED
  BY <1>1, <1>3, <1>4, <1>5, <1>6, <1>7, <1>8, <1>9 DEF SocketEvent

\* So does writing to a client.
LEMMA PostAcceptKeepsOrder ==
    ASSUME TypeOK, OrderInv, PostAccept
    PROVE  OrderInv'
<1> DEFINE c == Head(postA)
           x == [cc[c] EXCEPT !.post = {}]
           n == Len(x.requests)
           m == Len(out[c])
           writes == x.good /\ "Write" \in cc[c].post
<1>1. postA # <<>> /\ UNCHANGED res
  BY DEF PostAccept
<1>2. c \in Client
  BY <1>1, HeadTailProperties DEF TypeOK
<1>3. /\ x \in AcceptConn /\ x.requests = cc[c].requests /\ x.fd = cc[c].fd
      /\ x.parsed = cc[c].parsed
      /\ out[c] \in Seq(Answer)
  BY <1>2 DEF TypeOK, AcceptConn
<1>4. x.requests \in Seq(Req) /\ n \in Nat /\ m \in Nat
  BY <1>3, LenProperties DEF AcceptConn
<1> HIDE DEF c, x, n, writes
<1>5. PICK k \in 0..n, bad \in BOOLEAN :
        LET finished == k = n \/ ~Done(x.requests[k + 1])
            y == IF writes
                 THEN [x EXCEPT !.requests = SubSeq(@, k + 1, n),
                                !.good = ~bad /\ ~(finished /\ x.closeASAP),
                                !.writable = ~finished]
                 ELSE x
        IN
          /\ ~writes => k = 0
          /\ bad => writes /\ ~finished
          /\ \A i \in 1..k : Done(x.requests[i])
          /\ cc' = [cc EXCEPT ![c] =
                      IF (~y.good \/ "Error" \in cc[c].post) /\ y.fd = "open"
                      THEN [y EXCEPT !.fd = "closed", !.requests = <<>>, !.writable = FALSE]
                      ELSE y]
          /\ out' = [out EXCEPT ![c] = @ \o [i \in 1..k |-> res[x.requests[i]]]]
  BY ONLY PostAccept, Zenon DEF PostAccept, c, x, n, writes
<1> DEFINE shown == [i \in 1..k |-> res[x.requests[i]]]
           rest == SubSeq(x.requests, k + 1, n)
<1>6. \A i \in 1..n : x.requests[i] \in Req
  BY <1>4, ElementOfSeq DEF n
<1>7. k \in Nat /\ k <= n
  BY <1>4
<1>8. shown \in Seq(Answer) /\ Len(shown) = k
  <2>1. \A i \in 1..k : res[x.requests[i]] \in Answer
    <3> TAKE i \in 1..k
    <3>1. x.requests[i] \in Req
      BY <1>4, <1>6, <1>7
    <3>2. Done(x.requests[i])
      BY <1>5
    <3> QED BY <3>1, <3>2 DEF Done, TypeOK
  <2>2. shown \in [1..k -> Answer] /\ k \in Nat
    BY <1>7, <2>1
  <2>3. shown \in Seq(Answer)
    BY <2>2
  <2>4. DOMAIN shown = 1..k
    OBVIOUS
  <2> HIDE DEF shown
  <2>5. DOMAIN shown = 1..Len(shown) /\ Len(shown) \in Nat
    BY <2>3, LenProperties
  <2>6. Len(shown) = k
    BY <1>7, <2>4, <2>5
  <2> QED BY <2>3, <2>6
<1>9. /\ rest \in Seq(Req)
      /\ Len(rest) = n - k
      /\ \A i \in 1..n - k : rest[i] = x.requests[k + i]
  <2>1. \A i \in k + 1..n : x.requests[i] \in Req
    BY <1>4, <1>6, <1>7
  <2>2. /\ rest \in Seq(Req)
        /\ Len(rest) = IF k + 1 <= n THEN n - (k + 1) + 1 ELSE 0
        /\ \A i \in 1..n - (k + 1) + 1 : rest[i] = x.requests[k + 1 + i - 1]
    BY <1>4, <1>7, <2>1, SubSeqProperties
  <2> HIDE DEF rest
  <2> QED BY <1>4, <1>7, <2>2
<1>10. /\ out' = [out EXCEPT ![c] = @ \o shown]
       /\ \A d \in Client \ {c} : out'[d] = out[d] /\ cc'[d] = cc[d]
       /\ out'[c] = out[c] \o shown
  BY <1>2, <1>5 DEF TypeOK
<1>11. /\ Len(out'[c]) = m + k
       /\ \A i \in 1..m : out'[c][i] = out[c][i]
       /\ \A i \in m + 1..m + k : out'[c][i] = shown[i - m]
  <2> HIDE DEF shown
  <2>1. /\ Len(out'[c]) = m + Len(shown)
        /\ \A i \in 1..m + Len(shown) :
             out'[c][i] = IF i <= m THEN out[c][i] ELSE shown[i - m]
    <3>1. out[c] \in Seq(Answer) /\ shown \in Seq(Answer) /\ out'[c] = out[c] \o shown
      BY ONLY <1>3, <1>8, <1>10
    <3>2. /\ Len(out[c] \o shown) = Len(out[c]) + Len(shown)
          /\ \A i \in 1..Len(out[c]) + Len(shown) :
               (out[c] \o shown)[i] = IF i <= Len(out[c]) THEN out[c][i]
                                      ELSE shown[i - Len(out[c])]
      BY ONLY <3>1, ConcatProperties
    <3> QED BY ONLY <3>1, <3>2
  <2> HIDE DEF m
  <2>2. Len(shown) = k /\ m \in Nat /\ k \in Nat
    BY <1>4, <1>7, <1>8
  <2>3. \A i \in 1..m : i \in 1..m + k /\ i <= m
    BY ONLY <2>2
  <2>4. \A i \in m + 1..m + k : i \in 1..m + k /\ ~(i <= m)
    BY ONLY <2>2
  <2>5. \A i \in 1..m : out'[c][i] = out[c][i]
    BY ONLY <2>1, <2>2, <2>3
  <2>6. \A i \in m + 1..m + k : out'[c][i] = shown[i - m]
    BY ONLY <2>1, <2>2, <2>4
  <2> QED BY ONLY <2>1, <2>2, <2>5, <2>6
<1>12. \/ cc'[c].fd = "closed" /\ cc'[c].requests = <<>>
       \/ /\ cc'[c].fd = cc[c].fd
          /\ cc'[c].parsed = cc[c].parsed
          /\ \/ writes /\ cc'[c].requests = rest
             \/ ~writes /\ cc'[c].requests = x.requests
  <2> DEFINE finished == k = n \/ ~Done(x.requests[k + 1])
             good == ~bad /\ ~(finished /\ x.closeASAP)
             wr == ~finished
             y == IF writes
                  THEN [x EXCEPT !.requests = rest, !.good = good, !.writable = wr]
                  ELSE x
             z == [y EXCEPT !.fd = "closed", !.requests = <<>>, !.writable = FALSE]
  <2>1. cc' = [cc EXCEPT ![c] = z] \/ cc' = [cc EXCEPT ![c] = y]
    BY <1>5
  <2>2. y.fd = x.fd /\ y.parsed = x.parsed
          /\ (writes => y.requests = rest) /\ (~writes => y.requests = x.requests)
    <3> HIDE DEF rest, good, wr
    <3> QED BY <1>3 DEF AcceptConn
  <2>3. y \in AcceptConn
    <3>1. good \in BOOLEAN /\ wr \in BOOLEAN
      OBVIOUS
    <3> HIDE DEF rest, good, wr
    <3> QED BY <1>3, <1>9, <3>1 DEF AcceptConn
  <2> HIDE DEF y
  <2>4. z.fd = "closed" /\ z.requests = <<>>
    BY <2>3 DEF AcceptConn
  <2> HIDE DEF z
  <2> QED BY <1>2, <1>3, <2>1, <2>2, <2>4 DEF TypeOK
<1>13. /\ cc[c].fd # "closed" => n + m = cc[c].parsed
       /\ \A i \in 1..n : x.requests[i] = <<c, m + i>>
  BY <1>2, <1>3 DEF OrderInv, Pipelined, n
<1>14. Pipelined'
  <2>1. ASSUME writes, cc'[c].requests = rest
        PROVE  /\ n + m = cc[c].parsed => Len(cc'[c].requests) + Len(out'[c]) = cc[c].parsed
               /\ \A i \in 1..Len(cc'[c].requests) :
                    cc'[c].requests[i] = <<c, Len(out'[c]) + i>>
    <3> HIDE DEF m, rest, shown
    <3>1. n + m = cc[c].parsed => Len(cc'[c].requests) + Len(out'[c]) = cc[c].parsed
      BY <1>4, <1>7, <1>9, <1>11, <2>1
    <3>2. ASSUME NEW i \in 1..n - k
          PROVE  rest[i] = <<c, (m + k) + i>>
      <4>1. k + i \in 1..n /\ m + (k + i) = (m + k) + i
        BY <1>4, <1>7
      <4> QED BY <1>9, <1>13, <4>1
    <3> QED BY <1>9, <1>11, <2>1, <3>1, <3>2
  <2>2. ASSUME ~writes, cc'[c].requests = x.requests
        PROVE  /\ n + m = cc[c].parsed => Len(cc'[c].requests) + Len(out'[c]) = cc[c].parsed
               /\ \A i \in 1..Len(cc'[c].requests) :
                    cc'[c].requests[i] = <<c, Len(out'[c]) + i>>
    <3> HIDE DEF m, rest, shown
    <3>1. k = 0
      BY <1>5, <2>2
    <3>2. Len(cc'[c].requests) = n /\ Len(out'[c]) = m
      BY <1>4, <1>11, <2>2, <3>1 DEF n
    <3> QED BY <1>13, <2>2, <3>2
  <2>3. /\ cc'[c].fd # "closed" => Len(cc'[c].requests) + Len(out'[c]) = cc'[c].parsed
        /\ \A i \in 1..Len(cc'[c].requests) :
             cc'[c].requests[i] = <<c, Len(out'[c]) + i>>
    <3>1. CASE cc'[c].fd = "closed" /\ cc'[c].requests = <<>>
      BY <3>1, EmptySeq
    <3>2. CASE /\ cc'[c].fd = cc[c].fd /\ cc'[c].parsed = cc[c].parsed
               /\ \/ writes /\ cc'[c].requests = rest
                  \/ ~writes /\ cc'[c].requests = x.requests
      <4> HIDE DEF rest, m
      <4>1. cc'[c].fd # "closed" => n + m = cc[c].parsed
        BY ONLY <1>13, <3>2
      <4>2. CASE writes /\ cc'[c].requests = rest
        BY ONLY <2>1, <3>2, <4>1, <4>2
      <4>3. CASE ~writes /\ cc'[c].requests = x.requests
        BY ONLY <2>2, <3>2, <4>1, <4>3
      <4> QED BY ONLY <3>2, <4>2, <4>3
    <3> QED BY ONLY <1>12, <3>1, <3>2
  <2> SUFFICES ASSUME NEW d \in Client
               PROVE  /\ cc'[d].fd # "closed" =>
                           Len(cc'[d].requests) + Len(out'[d]) = cc'[d].parsed
                      /\ \A i \in 1..Len(cc'[d].requests) :
                           cc'[d].requests[i] = <<d, Len(out'[d]) + i>>
    BY DEF Pipelined
  <2>4. CASE d = c
    BY ONLY <2>3, <2>4
  <2>5. CASE d # c
    <3>1. out'[d] = out[d] /\ cc'[d] = cc[d]
      BY ONLY <1>10, <2>5, d \in Client
    <3>2. Pipelined /\ d \in Client
      BY DEF OrderInv
    <3> QED BY ONLY <3>1, <3>2 DEF Pipelined
  <2> QED BY ONLY <2>4, <2>5
<1>15. ASSUME NEW i \in 1..Len(out'[c])
       PROVE  out'[c][i].of = <<c, i>>
  <2>1. CASE i \in 1..m
    BY <2>1, <1>2, <1>11 DEF OrderInv, InOrder
  <2>2. CASE i \in m + 1..m + k
    <3>1. i - m \in 1..k /\ i - m \in 1..n /\ m + (i - m) = i
      BY <2>2, <1>4, <1>7
    <3>2. shown[i - m] = res[x.requests[i - m]] /\ x.requests[i - m] = <<c, i>>
      BY <1>13, <3>1
    <3>3. res[x.requests[i - m]].of = x.requests[i - m]
      BY <1>5, <1>6, <3>1 DEF OrderInv, OwnAnswers
    <3> QED BY <2>2, <1>11, <3>2, <3>3
  <2> QED BY <1>4, <1>7, <1>11, <2>1, <2>2
<1>16. InOrder'
  <2> SUFFICES ASSUME NEW d \in Client, NEW i \in 1..Len(out'[d])
               PROVE  out'[d][i].of = <<d, i>>
    BY DEF InOrder
  <2>1. CASE d = c
    BY <2>1, <1>15
  <2>2. CASE d # c
    BY <2>2, <1>10 DEF OrderInv, InOrder
  <2> QED BY <2>1, <2>2
<1> QED BY <1>1, <1>14, <1>16 DEF OrderInv, OwnAnswers, Done

\* Every step keeps OrderInv.
LEMMA StepKeepsOrder ==
    ASSUME LinkInv, OrderInv, [Next]_vars
    PROVE  OrderInv'
<1>1. TypeOK
  BY DEF LinkInv
<1>2. CASE SocketEvent
  BY <1>2, SocketEventKeepsOrder
<1>3. ASSUME NEW q \in Req \cup Inner, CloseRequest(q)
      PROVE  OrderInv'
  <2>1. CASE Answerable(q)
    <3>1. q \in Req /\ [kind |-> "proxy", of |-> q] \in Answer
      BY <2>1, ProxyAnswer DEF Answerable
    <3>2. SetResponse(cc[q[1]], q, [kind |-> "proxy", of |-> q]) /\ out' = out
      BY <1>3, <2>1 DEF CloseRequest
    <3> QED BY <1>1, <3>1, <3>2, RequestAnswered
  <2>2. CASE ~Answerable(q)
    BY <1>3, <2>2, ClientsUntouched DEF CloseRequest
  <2> QED BY <2>1, <2>2
<1>4. CASE PostAccept
  BY <1>1, <1>4, PostAcceptKeepsOrder
<1>5. ASSUME NEW c \in Client, IdleClient(c)
      PROVE  OrderInv'
  <2>1. \A d \in Client : /\ cc'[d].fd = cc[d].fd
                          /\ cc'[d].requests = cc[d].requests
                          /\ cc'[d].parsed = cc[d].parsed
    BY <1>1, <1>5, AddPostClient DEF IdleClient, TypeOK, Event
  <2>2. UNCHANGED <<res, out>>
    BY <1>5 DEF IdleClient
  <2>3. Pipelined'
    BY <2>1, <2>2, ClientsKept DEF OrderInv
  <2> QED BY <2>2, <2>3 DEF OrderInv, OwnAnswers, Done, InOrder
<1>6. CASE \/ EndWait \/ PostConnect \/ CloseSocket \/ TurnToAccept \/ EndPost
           \/ NoIdleClient \/ EndCheckPool \/ EndServerTimeout
           \/ \E s \in Server : CheckPool(s) \/ TimedOut(s)
           \/ UNCHANGED vars
  <2>1. UNCHANGED <<cc, res, out>>
    BY <1>6 DEF EndWait, PostConnect, CloseSocket, TurnToAccept, EndPost,
                NoIdleClient, EndCheckPool, EndServerTimeout, CheckPool, TimedOut, vars
  <2> QED BY <2>1, ClientsUntouched
<1> QED BY <1>2, <1>3, <1>4, <1>5, <1>6 DEF Next, PostStep, CheckStep

\* On every reachable state the requests and the answers of a client are in
\* step.
THEOREM OrderInvariant == Spec => []OrderInv
<1>1. Init => OrderInv
  BY EmptySeq, PipelineAssumption
  DEF Init, OrderInv, OwnAnswers, Pipelined, InOrder, Done, NoRes
<1>2. LinkInv /\ OrderInv /\ [Next]_vars => OrderInv'
  BY StepKeepsOrder
<1> QED BY <1>1, <1>2, LinkInvariant, PTL DEF Spec

\* Each client is written its own answers in the order of its requests, none
\* missing or doubled, however its requests are spread over the servers.
THEOREM InOrderAlways == Spec => []InOrder
<1>1. OrderInv => InOrder
  BY DEF OrderInv
<1> QED BY <1>1, OrderInvariant, PTL
=============================================================================
