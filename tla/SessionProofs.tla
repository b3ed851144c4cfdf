---------------------------- MODULE SessionProofs ----------------------------
(***************************************************************************)
(* What holds of Session for any clients and connections, commands,        *)
(* refusals and failures: the types, that no request is lost, and that a   *)
(* client is not left blocked.                                             *)
(*                                                                         *)
(* The operations of the handler are functions from its state to the state *)
(* they leave, and call each other.  The invariant HandlerInv is therefore *)
(* about such a state, and has two parameters for what is under way within *)
(* an operation: the requests that need no connection for the moment, and  *)
(* the connections that count as one.  Most of what an operation does is   *)
(* within a frame that keeps it: it changes lists, events, counters and    *)
(* who is attached to whom.  The rest is an answer, which takes a request  *)
(* off those that need a connection; a request that is put on one; a       *)
(* connection that is opened or closed; requests that arrive or leave.     *)
(* The operations that go through a sequence of requests are folds, and    *)
(* LeftFold's induction carries the invariant through them.                *)
(***************************************************************************)
EXTENDS Session, FiniteSetTheorems, TLAPS

\* The state of the handler, as Handler gives it.
Parts == {"cc", "sc", "idle", "req", "postA", "postS"}

State(h) ==
    /\ DOMAIN h = Parts
    /\ h.cc \in [Client -> AcceptConn]
    /\ h.sc \in [Conn -> ConnectConn]
    /\ h.idle \in List /\ h.postS \in List
    /\ h.req \in [Req -> Request]
    /\ h.postA \in Seq(Client)

\* Client x has become y, with the same requests.
SameClient(x, y) ==
    /\ y \in AcceptConn
    /\ y.open = x.open /\ y.good = x.good /\ y.requests = x.requests
    /\ y.parsed = x.parsed /\ y.messages = x.messages

\* Connection x has become y, open or closed as it was, with the same requests.
SameConn(x, y) ==
    /\ y \in ConnectConn
    /\ y.link = x.link /\ y.good = x.good /\ y.send = x.send /\ y.sent = x.sent

\* Clients have the same requests, and the list of those with events has not
\* become empty.
SameClients(h, g) ==
    /\ \A c \in Client : SameClient(h.cc[c], g.cc[c])
    /\ h.postA # <<>> => g.postA # <<>>

\* As many clients are blocked.
SameBlocks(h, g) == \A c \in Client : g.cc[c].block = h.cc[c].block

SameConns(h, g) == \A k \in Conn : SameConn(h.sc[k], g.sc[k])

Frame(h, g) ==
    State(g) /\ SameClients(h, g) /\ SameBlocks(h, g) /\ SameConns(h, g) /\ g.req = h.req

\* Nothing has changed.
LEMMA FrameSame == ASSUME NEW h, State(h) PROVE Frame(h, h)
BY DEF State, Frame, SameClients, SameBlocks, SameConns, SameClient, SameConn

\* Two changes are one.
LEMMA FrameTrans ==
    ASSUME NEW f, NEW g, NEW h, Frame(f, g), Frame(g, h)
    PROVE  Frame(f, h)
BY DEF Frame, SameClients, SameBlocks, SameConns, SameClient, SameConn

\* One client and one connection are changed, but for what the frame keeps.
LEMMA FrameOne ==
    ASSUME NEW h, State(h), NEW g, DOMAIN g = Parts,
           NEW c \in Client, NEW x, g.cc = [h.cc EXCEPT ![c] = x],
           SameClient(h.cc[c], x), x.block = h.cc[c].block,
           NEW k \in Conn, NEW y, g.sc = [h.sc EXCEPT ![k] = y],
           SameConn(h.sc[k], y),
           g.idle \in List, g.postS \in List, g.req = h.req, g.postA \in Seq(Client),
           h.postA # <<>> => g.postA # <<>>
    PROVE  Frame(h, g)
<1>1. g.cc \in [Client -> AcceptConn] /\ SameClients(h, g) /\ SameBlocks(h, g)
  BY DEF State, SameClients, SameBlocks, SameClient
<1>2. g.sc \in [Conn -> ConnectConn] /\ SameConns(h, g)
  BY DEF State, SameConns, SameConn
<1> QED BY <1>1, <1>2 DEF Frame, State

\* ... one client ...
LEMMA FrameClient ==
    ASSUME NEW h, State(h), NEW g, DOMAIN g = Parts,
           NEW c \in Client, NEW x, g.cc = [h.cc EXCEPT ![c] = x],
           SameClient(h.cc[c], x), x.block = h.cc[c].block, g.sc = h.sc,
           g.idle \in List, g.postS \in List, g.req = h.req, g.postA \in Seq(Client),
           h.postA # <<>> => g.postA # <<>>
    PROVE  Frame(h, g)
<1>1. g.cc \in [Client -> AcceptConn] /\ SameClients(h, g) /\ SameBlocks(h, g)
  BY DEF State, SameClients, SameBlocks, SameClient
<1>2. SameConns(h, g)
  BY DEF State, SameConns, SameConn
<1> QED BY <1>1, <1>2 DEF Frame, State

\* ... one connection.
LEMMA FrameConn ==
    ASSUME NEW h, State(h), NEW g, DOMAIN g = Parts, g.cc = h.cc,
           NEW k \in Conn, NEW y, g.sc = [h.sc EXCEPT ![k] = y],
           SameConn(h.sc[k], y),
           g.idle \in List, g.postS \in List, g.req = h.req, g.postA \in Seq(Client),
           h.postA # <<>> => g.postA # <<>>
    PROVE  Frame(h, g)
<1>1. SameClients(h, g) /\ SameBlocks(h, g)
  BY DEF State, SameClients, SameBlocks, SameClient
<1>2. g.sc \in [Conn -> ConnectConn] /\ SameConns(h, g)
  BY DEF State, SameConns, SameConn
<1> QED BY <1>1, <1>2 DEF Frame, State

\* The link of a connection is no part of the frame.
LEMMA Relinked ==
    ASSUME NEW y \in ConnectConn, NEW l \in Conn \cup {None}
    PROVE  SameConn(y, [y EXCEPT !.next = l])
BY DEF ConnectConn, SameConn

\* A list has grown or shrunk.
LEMMA ListChanged ==
    ASSUME NEW l \in List, NEW a \in Conn \cup {None}, NEW b \in Conn \cup {None}
    PROVE  /\ [l EXCEPT !.tail = a, !.size = @ + 1] \in List
           /\ [[l EXCEPT !.head = a] EXCEPT !.tail = a, !.size = @ + 1] \in List
           /\ [l EXCEPT !.head = a, !.tail = b, !.size = @ - 1] \in List
<1>1. \A m \in List : /\ m.size + 1 \in Int /\ m.size - 1 \in Int
                      /\ \A n \in Int : [m EXCEPT !.size = n] \in List
                      /\ [m EXCEPT !.tail = a] \in List /\ [m EXCEPT !.tail = b] \in List
                      /\ [m EXCEPT !.head = a] \in List
  BY DEF List
<1>2. \A m \in List : [m EXCEPT !.size = @ + 1] \in List /\ [m EXCEPT !.size = @ - 1] \in List
  BY <1>1
<1> QED BY <1>1, <1>2

\* What the lists of connections, the events and attaching do is within the frame:
\* push_back,
LEMMA PushBackFrame ==
    ASSUME NEW h, State(h), NEW list \in {"idle", "postS"}, NEW k \in Conn
    PROVE  Frame(h, PushBack(h, list, k))
<1> DEFINE g == PushBack(h, list, k)
           t == h[list].tail
           y == [h.sc[t] EXCEPT !.next = k]
           longer(l) == IF t = None THEN [[l EXCEPT !.head = k] EXCEPT !.tail = k, !.size = @ + 1]
                        ELSE [l EXCEPT !.tail = k, !.size = @ + 1]
<1>1. /\ DOMAIN g = Parts
      /\ g.cc = h.cc /\ g.req = h.req /\ g.postA = h.postA
      /\ g.sc = IF t = None THEN h.sc ELSE [h.sc EXCEPT ![t] = y]
      /\ g.idle = IF list = "idle" THEN longer(h.idle) ELSE h.idle
      /\ g.postS = IF list = "postS" THEN longer(h.postS) ELSE h.postS
  <2>1. CASE list = "idle"
    BY <2>1 DEF PushBack, State, Parts
  <2>2. CASE list = "postS"
    BY <2>2 DEF PushBack, State, Parts
  <2> QED BY <2>1, <2>2
<1>2. t \in Conn \cup {None}
  BY DEF State, List
<1>3. longer(h.idle) \in List /\ longer(h.postS) \in List
  BY ListChanged DEF State
<1>4. t # None => t \in Conn /\ SameConn(h.sc[t], y)
  BY <1>2, Relinked DEF State
<1> HIDE DEF g, t, y, longer
<1>5. g.idle \in List /\ g.postS \in List
  BY <1>1, <1>3 DEF State
<1>6. CASE t = None
  <2>1. SameConns(h, g) /\ SameClients(h, g) /\ SameBlocks(h, g)
    BY <1>1, <1>6 DEF State, SameClients, SameBlocks, SameConns, SameClient, SameConn
  <2> QED BY <1>1, <1>5, <1>6, <2>1 DEF Frame, State, g
<1>7. CASE t # None
  <2>1. Frame(h, g)
    BY <1>1, <1>4, <1>5, <1>7, FrameConn DEF State
  <2> QED BY <2>1 DEF g
<1> QED BY <1>6, <1>7

\* pop_front,
LEMMA PopFrontFrame ==
    ASSUME NEW h, State(h), NEW list \in {"idle", "postS"}, h[list].head \in Conn
    PROVE  Frame(h, PopFront(h, list))
<1> DEFINE g == PopFront(h, list)
           t == h[list].head
           y == [h.sc[t] EXCEPT !.next = None]
           shorter(l) == [l EXCEPT !.head = h.sc[t].next,
                                   !.tail = IF l.size = 1 THEN None ELSE @, !.size = @ - 1]
<1>1. /\ DOMAIN g = Parts
      /\ g.cc = h.cc /\ g.req = h.req /\ g.postA = h.postA
      /\ g.sc = [h.sc EXCEPT ![t] = y]
      /\ g.idle = IF list = "idle" THEN shorter(h.idle) ELSE h.idle
      /\ g.postS = IF list = "postS" THEN shorter(h.postS) ELSE h.postS
  <2>1. CASE list = "idle"
    BY <2>1 DEF PopFront, State, Parts
  <2>2. CASE list = "postS"
    BY <2>2 DEF PopFront, State, Parts
  <2> QED BY <2>1, <2>2
<1>2. t \in Conn /\ h.sc[t] \in ConnectConn
  BY DEF State
<1>3. shorter(h.idle) \in List /\ shorter(h.postS) \in List
  <2>1. h.sc[t].next \in Conn \cup {None}
    BY <1>2 DEF ConnectConn
  <2>2. \A l \in List : (IF l.size = 1 THEN None ELSE l.tail) \in Conn \cup {None}
    BY DEF List
  <2> QED BY <2>1, <2>2, ListChanged DEF State
<1>4. SameConn(h.sc[t], y)
  BY <1>2, Relinked
<1> HIDE DEF g, t, y, shorter
<1>5. g.idle \in List /\ g.postS \in List
  BY <1>1, <1>3 DEF State
<1>6. Frame(h, g)
  BY <1>1, <1>2, <1>4, <1>5, FrameConn DEF State
<1> QED BY <1>6 DEF g

\* an event of a connection,
LEMMA PostSFrame ==
    ASSUME NEW h, State(h), NEW k \in Conn, NEW e \in Event
    PROVE  Frame(h, PostS(h, k, e))
<1> DEFINE p == IF h.sc[k].post = {} THEN PushBack(h, "postS", k) ELSE h
           g == PostS(h, k, e)
<1>1. Frame(h, p)
  BY PushBackFrame, FrameSame
<1>2. State(p) /\ p.sc[k] \in ConnectConn
  BY <1>1 DEF Frame, State
<1>3. g = [p EXCEPT !.sc[k].post = @ \cup {e}]
  BY DEF PostS
<1> HIDE DEF p, g
<1>4. /\ DOMAIN g = Parts
      /\ g.cc = p.cc /\ g.req = p.req /\ g.postA = p.postA
      /\ g.idle = p.idle /\ g.postS = p.postS
      /\ g.sc = [p.sc EXCEPT ![k] = [p.sc[k] EXCEPT !.post = @ \cup {e}]]
  BY <1>2, <1>3 DEF State, Parts
<1>5. SameConn(p.sc[k], [p.sc[k] EXCEPT !.post = @ \cup {e}])
  BY <1>2 DEF ConnectConn, SameConn, Event
<1>6. Frame(p, g)
  BY <1>2, <1>4, <1>5, FrameConn DEF State
<1> QED BY <1>1, <1>6, FrameTrans DEF g

\* an event of a client,
LEMMA PostAFrame ==
    ASSUME NEW h, State(h), NEW c \in Client, NEW e \in Event
    PROVE  Frame(h, PostA(h, c, e))
<1> DEFINE g == PostA(h, c, e)
           x == [h.cc[c] EXCEPT !.post = @ \cup {e}]
<1>1. /\ DOMAIN g = Parts
      /\ g.cc = [h.cc EXCEPT ![c] = x]
      /\ g.sc = h.sc /\ g.req = h.req /\ g.idle = h.idle /\ g.postS = h.postS
      /\ g.postA \in {h.postA, Append(h.postA, c)}
  BY DEF PostA, State, Parts
<1>2. h.cc[c] \in AcceptConn
  BY DEF State
<1>3. SameClient(h.cc[c], x) /\ x.block = h.cc[c].block
  BY <1>2 DEF AcceptConn, SameClient, Event
<1> HIDE DEF g, x
<1>4. g.postA \in Seq(Client) /\ (h.postA # <<>> => g.postA # <<>>)
  <2>1. \A s \in Seq(Client) : Append(s, c) \in Seq(Client) /\ Append(s, c) # <<>>
    <3> TAKE s \in Seq(Client)
    <3>1. Append(s, c) \in Seq(Client) /\ Len(Append(s, c)) = Len(s) + 1 /\ Len(s) \in Nat
      OBVIOUS
    <3>2. Len(<<>>) = 0
      OBVIOUS
    <3> QED BY <3>1, <3>2
  <2> QED BY <1>1, <2>1 DEF State
<1>5. Frame(h, g)
  BY <1>1, <1>3, <1>4, FrameClient DEF State
<1> QED BY <1>5 DEF g

\* a client and a connection that part,
LEMMA DetachFrame ==
    ASSUME NEW h, State(h), NEW c \in Client, NEW k \in Conn
    PROVE  Frame(h, Detach(h, c, k))
<1> DEFINE g == Detach(h, c, k)
           x == [h.cc[c] EXCEPT !.conn = None]
           y == [h.sc[k] EXCEPT !.acc = None]
<1>1. /\ DOMAIN g = Parts
      /\ g.cc = [h.cc EXCEPT ![c] = x] /\ g.sc = [h.sc EXCEPT ![k] = y]
      /\ g.req = h.req /\ g.idle = h.idle /\ g.postS = h.postS /\ g.postA = h.postA
  BY DEF Detach, State, Parts
<1>2. h.cc[c] \in AcceptConn /\ h.sc[k] \in ConnectConn
  BY DEF State
<1>3. SameClient(h.cc[c], x) /\ x.block = h.cc[c].block
  BY <1>2 DEF AcceptConn, SameClient
<1>4. SameConn(h.sc[k], y)
  BY <1>2 DEF ConnectConn, SameConn
<1> HIDE DEF g, x, y
<1>5. Frame(h, g)
  BY <1>1, <1>3, <1>4, FrameOne DEF State
<1> QED BY <1>5 DEF g

\* and a client that is attached.
LEMMA AttachFrame ==
    ASSUME NEW h, State(h), NEW c \in Client, NEW k \in Conn
    PROVE  Frame(h, Attach(h, c, k))
<1> DEFINE g == Attach(h, c, k)
           x == [h.cc[c] EXCEPT !.conn = k]
           y == [h.sc[k] EXCEPT !.acc = c]
<1>1. /\ DOMAIN g = Parts
      /\ g.cc = [h.cc EXCEPT ![c] = x] /\ g.sc = [h.sc EXCEPT ![k] = y]
      /\ g.req = h.req /\ g.idle = h.idle /\ g.postS = h.postS /\ g.postA = h.postA
  BY DEF Attach, State, Parts
<1>2. h.cc[c] \in AcceptConn /\ h.sc[k] \in ConnectConn
  BY DEF State
<1>3. SameClient(h.cc[c], x) /\ x.block = h.cc[c].block
  BY <1>2 DEF AcceptConn, SameClient
<1>4. SameConn(h.sc[k], y)
  BY <1>2 DEF ConnectConn, SameConn
<1> HIDE DEF g, x, y
<1>5. Frame(h, g)
  BY <1>1, <1>3, <1>4, FrameOne DEF State
<1> QED BY <1>5 DEF g

-----------------------------------------------------------------------------
(* An answer.                                                              *)

\* Nothing but counters has changed.
Recounted(x, y) == SameClient(x, y) /\ y.block = x.block

\* Unwatch, and what the counters of a client do one at a time.
LEMMA CountersChange ==
    ASSUME NEW x \in AcceptConn
    PROVE  /\ Recounted(x, x)
           /\ Recounted(x, Unwatch(x))
           /\ Recounted(x, DecrMulti(x))
           /\ Recounted(x, [x EXCEPT !.watch = @ + 1])
           /\ Recounted(x, [x EXCEPT !.multi = @ + 1])
           /\ Recounted(x, [x EXCEPT !.pendWatch = Minus(@, 1)])
           /\ Recounted(x, [x EXCEPT !.pendMulti = Minus(@, 1)])
           /\ Recounted(x, [x EXCEPT !.pendSub = Minus(@, 1)])
<1>1. \A n, m \in Nat : Minus(n, m) \in Nat /\ Minus(n, 1) \in Nat
  BY DEF Minus
<1>2. /\ x.watch \in Nat /\ x.multi \in Nat /\ x.pendWatch \in Nat
      /\ x.pendMulti \in Nat /\ x.pendSub \in Nat
  BY DEF AcceptConn
<1>3. /\ Minus(x.pendWatch, x.watch) \in Nat /\ Minus(x.pendMulti, 1) \in Nat
      /\ Minus(x.multi, 1) \in Nat /\ Minus(x.pendWatch, 1) \in Nat
      /\ Minus(x.pendSub, 1) \in Nat /\ x.watch + 1 \in Nat /\ x.multi + 1 \in Nat
  <2>1. x.watch + 1 \in Nat /\ x.multi + 1 \in Nat
    BY <1>2
  <2> QED BY <1>1, <1>2, <2>1
<1>4. Recounted(x, x)
  BY DEF Recounted, SameClient
<1>5. Recounted(x, Unwatch(x))
  <2> DEFINE n == Minus(x.pendWatch, x.watch)
             y == [x EXCEPT !.pendWatch = n, !.watch = 0]
  <2> n \in Nat
    BY <1>3
  <2>1. Unwatch(x) = y
    BY DEF Unwatch
  <2> HIDE DEF n
  <2>2. Recounted(x, y)
    BY DEF Recounted, SameClient, AcceptConn
  <2> QED BY <2>1, <2>2
<1>6. Recounted(x, DecrMulti(x))
  <2> DEFINE n == Minus(x.pendMulti, 1)
             m == Minus(x.multi, 1)
             y == [x EXCEPT !.pendMulti = n, !.multi = m]
  <2> n \in Nat /\ m \in Nat
    BY <1>3
  <2>1. DecrMulti(x) = y
    BY DEF DecrMulti
  <2> HIDE DEF n, m
  <2>2. Recounted(x, y)
    BY DEF Recounted, SameClient, AcceptConn
  <2> QED BY <2>1, <2>2
<1>7. /\ Recounted(x, [x EXCEPT !.watch = @ + 1])
      /\ Recounted(x, [x EXCEPT !.multi = @ + 1])
  BY <1>3 DEF Recounted, SameClient, AcceptConn
<1>8. /\ Recounted(x, [x EXCEPT !.pendWatch = Minus(@, 1)])
      /\ Recounted(x, [x EXCEPT !.pendMulti = Minus(@, 1)])
      /\ Recounted(x, [x EXCEPT !.pendSub = Minus(@, 1)])
  BY <1>3 DEF Recounted, SameClient, AcceptConn
<1> QED BY <1>4, <1>5, <1>6, <1>7, <1>8

\* A response changes the counters of its client, and no longer blocks it.
LEMMA RespondedIs ==
    ASSUME NEW x \in AcceptConn, NEW cmd, NEW res, NEW direct
    PROVE  /\ SameClient(x, Responded(x, cmd, res, direct))
           /\ Responded(x, cmd, res, direct).block = (x.block /\ cmd \notin Blocking)
<1> DEFINE y == Unblocked(x, cmd)
           z == Responded(x, cmd, res, direct)
<1>1. SameClient(x, y) /\ y.block = (x.block /\ cmd \notin Blocking)
  BY DEF Unblocked, SameClient, AcceptConn
<1>2. y \in AcceptConn
  BY <1>1 DEF SameClient
<1>3. Recounted(Unwatch(y), DecrMulti(Unwatch(y)))
  BY <1>2, CountersChange DEF Recounted, SameClient
<1>4. Recounted(y, DecrMulti(Unwatch(y)))
  BY <1>2, <1>3, CountersChange DEF Recounted, SameClient
<1>5. z \in {y, Unwatch(y), [y EXCEPT !.watch = @ + 1], [y EXCEPT !.pendWatch = Minus(@, 1)],
             [y EXCEPT !.multi = @ + 1], [y EXCEPT !.pendMulti = Minus(@, 1)],
             DecrMulti(Unwatch(y)), [y EXCEPT !.pendSub = Minus(@, 1)]}
  BY DEF Responded
<1> HIDE DEF y, z
<1>6. Recounted(y, z)
  BY <1>2, <1>4, <1>5, CountersChange
<1>7. SameClient(x, z) /\ z.block = (x.block /\ cmd \notin Blocking)
  BY <1>1, <1>6 DEF Recounted, SameClient
<1> QED BY <1>7 DEF z

Response == {"ok", "data", "queued", "err", "null"}

\* The client of request r waits for it.
Heeded(h, r) == Contains(h.cc[r[1]].requests, r) /\ h.cc[r[1]].good

\* The handler's state h has become g by the answer res to request r.
Answers(h, g, r, res) ==
    /\ State(g) /\ SameClients(h, g) /\ SameConns(h, g)
    /\ IF Heeded(h, r)
       THEN /\ g.req = [h.req EXCEPT ![r].res = res]
            /\ \A c \in Client :
                  g.cc[c].block = (h.cc[c].block
                                     /\ ~(c = r[1] /\ h.req[r].cmd \in Blocking))
       ELSE g.req = h.req /\ SameBlocks(h, g)

\* What follows an answer within the frame belongs to it.
LEMMA AnswersFrame ==
    ASSUME NEW f, NEW g, NEW h, NEW r \in Req, NEW res, Answers(f, g, r, res), Frame(g, h)
    PROVE  Answers(f, h, r, res)
<1>1. State(h) /\ SameClients(f, h) /\ SameConns(f, h)
  BY DEF Answers, Frame, SameClients, SameConns, SameClient, SameConn
<1>2. h.req = g.req /\ \A c \in Client : h.cc[c].block = g.cc[c].block
  BY DEF Frame, SameBlocks
<1> QED BY <1>1, <1>2 DEF Answers, SameBlocks

\* handleResponse answers a request, or leaves the handler as it is.
LEMMA HandleResponseAnswers ==
    ASSUME NEW h, State(h), NEW k \in Conn \cup {None}, NEW r \in Req, NEW res \in Response
    PROVE  Answers(h, HandleResponse(h, k, r, res), r, res)
<1> DEFINE c == r[1]
           x == h.cc[c]
           cmd == h.req[r].cmd
           answered == [h EXCEPT !.req[r].res = res]
           posted == IF answered.req[Head(x.requests)].res # "none"
                     THEN PostA(answered, c, "Write") ELSE answered
           z == Responded(posted.cc[c], cmd, res, k = None)
           counted == [posted EXCEPT !.cc[c] = z]
           ended == IF cmd \in {"exec", "discard"} /\ x.multi > 0 /\ k = None
                    THEN PostA(counted, c, "Error") ELSE counted
           put == IF k \in Private /\ ~Holds(ended.cc[c])
                  THEN Detach(PutPrivate(ended, k), c, k) ELSE ended
<1>1. HandleResponse(h, k, r, res) = IF ~Heeded(h, r) THEN h ELSE put
  <2>1. HandleResponse(h, k, r, res) =
          IF ~Contains(x.requests, r) \/ ~x.good THEN h ELSE put
    BY ONLY DEF HandleResponse
  <2> HIDE DEF put
  <2>2. Heeded(h, r) = ~(~Contains(x.requests, r) \/ ~x.good)
    BY DEF Heeded
  <2> QED BY <2>1, <2>2
<1>2. CASE ~Heeded(h, r)
  <2>1. Frame(h, h)
    BY FrameSame
  <2> QED BY <1>1, <1>2, <2>1 DEF Answers, Frame
<1>3. CASE Heeded(h, r)
  <2>1. c \in Client /\ h.req[r] \in Request
    BY DEF Req, State
  <2>2. State(answered) /\ SameClients(h, answered) /\ SameBlocks(h, answered)
          /\ SameConns(h, answered) /\ answered.req = [h.req EXCEPT ![r].res = res]
    <3>1. /\ DOMAIN answered = Parts
          /\ answered.cc = h.cc /\ answered.sc = h.sc /\ answered.idle = h.idle
          /\ answered.postS = h.postS /\ answered.postA = h.postA
          /\ answered.req = [h.req EXCEPT ![r].res = res]
      BY DEF State, Parts
    <3>2. [h.req[r] EXCEPT !.res = res] \in Request
      BY <2>1 DEF Request, Response
    <3>3. [h.req EXCEPT ![r].res = res] \in [Req -> Request]
      BY <3>2 DEF State
    <3> HIDE DEF answered
    <3> QED BY <3>1, <3>3
            DEF State, SameClients, SameBlocks, SameConns, SameClient, SameConn
  <2> HIDE DEF answered
  <2>3. Frame(answered, posted)
    BY <2>1, <2>2, PostAFrame, FrameSame DEF Event
  <2> HIDE DEF posted
  <2>4. State(posted) /\ posted.cc[c] \in AcceptConn
    BY <2>1, <2>3 DEF Frame, State
  <2>5. SameClient(posted.cc[c], z) /\ z.block = (posted.cc[c].block /\ cmd \notin Blocking)
    BY <2>4, RespondedIs
  <2> HIDE DEF z
  <2>6. /\ State(counted) /\ SameClients(posted, counted) /\ SameConns(posted, counted)
        /\ counted.req = posted.req
        /\ \A d \in Client : counted.cc[d].block =
              (posted.cc[d].block /\ ~(d = c /\ cmd \in Blocking))
    <3>1. /\ DOMAIN counted = Parts
          /\ counted.cc = [posted.cc EXCEPT ![c] = z]
          /\ counted.sc = posted.sc /\ counted.idle = posted.idle
          /\ counted.postS = posted.postS /\ counted.postA = posted.postA
          /\ counted.req = posted.req
      BY <2>4 DEF State, Parts
    <3> HIDE DEF counted
    <3>2. counted.cc \in [Client -> AcceptConn] /\ SameClients(posted, counted)
      BY <2>1, <2>4, <2>5, <3>1 DEF State, SameClients, SameClient
    <3>3. \A d \in Client : counted.cc[d].block =
              (posted.cc[d].block /\ ~(d = c /\ cmd \in Blocking))
      <4> TAKE d \in Client
      <4>1. CASE d = c
        BY <2>1, <2>4, <2>5, <3>1, <4>1 DEF State
      <4>2. CASE d # c
        <5>1. counted.cc[d] = posted.cc[d]
          BY <2>1, <2>4, <3>1, <4>2 DEF State
        <5>2. posted.cc[d].block \in BOOLEAN
          BY <2>4 DEF State, AcceptConn
        <5> QED BY <5>1, <5>2, <4>2
      <4> QED BY <4>1, <4>2
    <3> QED BY <2>4, <3>1, <3>2, <3>3 DEF State, SameConns, SameConn
  <2> HIDE DEF counted
  <2>7. Answers(h, counted, r, res)
    <3>1. SameClients(h, counted) /\ SameConns(h, counted)
      BY <2>2, <2>3, <2>6 DEF Frame, SameClients, SameConns, SameClient, SameConn
    <3>2. counted.req = [h.req EXCEPT ![r].res = res]
      BY <2>2, <2>3, <2>6 DEF Frame
    <3>3. \A d \in Client : posted.cc[d].block = h.cc[d].block
      BY <2>2, <2>3 DEF Frame, SameBlocks
    <3>4. \A d \in Client : counted.cc[d].block = (h.cc[d].block /\ ~(d = c /\ cmd \in Blocking))
      BY <2>6, <3>3
    <3> QED BY <1>3, <2>6, <3>1, <3>2, <3>4 DEF Answers
  <2>8. Frame(counted, ended)
    BY <2>1, <2>6, PostAFrame, FrameSame DEF Event
  <2> HIDE DEF ended
  <2>9. Frame(ended, put)
    <3>1. State(ended)
      BY <2>8 DEF Frame
    <3>2. ASSUME k \in Private PROVE Frame(ended, Detach(PutPrivate(ended, k), c, k))
      <4>1. k \in Conn
        BY <3>2 DEF Conn
      <4>2. Frame(ended, PutPrivate(ended, k))
        BY <3>1, <4>1, PushBackFrame DEF PutPrivate
      <4>3. Frame(PutPrivate(ended, k), Detach(PutPrivate(ended, k), c, k))
        BY <2>1, <4>1, <4>2, DetachFrame DEF Frame
      <4> QED BY <4>2, <4>3, FrameTrans
    <3> QED BY <3>1, <3>2, FrameSame
  <2> HIDE DEF put
  <2>10. Answers(h, put, r, res)
    BY <2>7, <2>8, <2>9, AnswersFrame
  <2> QED BY <1>1, <1>3, <2>10
<1> QED BY <1>2, <1>3

-----------------------------------------------------------------------------
(* The invariant of the handler.                                           *)

\* Connection k has request r, to be sent or sent.
Has(h, k, r) == Contains(h.sc[k].sent, r) \/ Contains(h.sc[k].send, r)

\* The requests of a client are its own and distinct, and have been read.
Own(h) ==
    \A c \in Client :
       /\ \A i \in DOMAIN h.cc[c].requests :
             LET r == h.cc[c].requests[i] IN
               r[1] = c /\ r[2] \in (1..h.cc[c].parsed) \cup
                                  (MaxReq + 1..MaxReq + h.cc[c].messages)
       /\ \A i, j \in DOMAIN h.cc[c].requests :
             h.cc[c].requests[i] = h.cc[c].requests[j] => i = j

\* Nothing has happened to a request that was not read.
Unread(h) ==
    \A r \in Req : r[2] \in h.cc[r[1]].parsed + 1..MaxReq =>
       ~h.req[r].delivered /\ h.req[r].res = "none"

\* A request on a connection was delivered, and a blocking one is not answered before.
Delivered(h) ==
    \A r \in Req :
       /\ (\E k \in Conn : Has(h, k, r)) => h.req[r].delivered
       /\ ~h.req[r].delivered /\ h.req[r].cmd \in Blocking => h.req[r].res = "none"

\* A good connection is open.
GoodOpen(h) == \A k \in Conn : h.sc[k].good => Open(h.sc[k])

\* Client c is served, and waits for request r.
Waits(h, c, r) ==
    /\ h.cc[c].open /\ h.cc[c].good /\ Contains(h.cc[c].requests, r)
    /\ h.req[r].delivered /\ h.req[r].res = "none"

BlockedOK(h) ==
    \A c \in Client : h.cc[c].open /\ h.cc[c].good /\ h.cc[c].block =>
       \E r \in Req : Waits(h, c, r) /\ h.req[r].cmd \in Blocking

\* Each request that is waited for is in R, or on an open connection of K.
Kept(h, R, K) ==
    \A c \in Client, r \in Req : Waits(h, c, r) =>
       r \in R \/ \E k \in K : Open(h.sc[k]) /\ Has(h, k, r)

HandlerInv(h, R, K) ==
    /\ State(h) /\ Own(h) /\ Unread(h) /\ Delivered(h) /\ GoodOpen(h)
    /\ BlockedOK(h) /\ Kept(h, R, K)

\* What is said of a client's requests depends on these alone,
LEMMA OwnSame ==
    ASSUME NEW h, Own(h), NEW g,
           \A c \in Client : /\ g.cc[c].requests = h.cc[c].requests
                            /\ g.cc[c].parsed = h.cc[c].parsed
                            /\ g.cc[c].messages = h.cc[c].messages
    PROVE  Own(g)
BY DEF Own

\* ... and of those that were not read.
LEMMA UnreadSame ==
    ASSUME NEW h, Unread(h), NEW g, g.req = h.req,
           \A c \in Client : g.cc[c].parsed = h.cc[c].parsed
    PROVE  Unread(g)
<1>1. \A r \in Req : r[1] \in Client
  BY DEF Req
<1> QED BY <1>1 DEF Unread

\* The frame keeps it.
LEMMA FrameKeeps ==
    ASSUME NEW h, NEW g, NEW R, NEW K \in SUBSET Conn, HandlerInv(h, R, K), Frame(h, g)
    PROVE  HandlerInv(g, R, K)
<1>1. /\ State(g) /\ g.req = h.req
      /\ \A c \in Client : /\ g.cc[c].open = h.cc[c].open /\ g.cc[c].good = h.cc[c].good
                           /\ g.cc[c].requests = h.cc[c].requests
                           /\ g.cc[c].parsed = h.cc[c].parsed
                           /\ g.cc[c].messages = h.cc[c].messages
                           /\ g.cc[c].block = h.cc[c].block
      /\ \A k \in Conn : /\ g.sc[k].link = h.sc[k].link /\ g.sc[k].good = h.sc[k].good
                         /\ g.sc[k].send = h.sc[k].send /\ g.sc[k].sent = h.sc[k].sent
  BY DEF Frame, SameClients, SameBlocks, SameConns, SameClient, SameConn
<1>2. Own(g)
  BY <1>1 DEF HandlerInv, Own
<1>3. \A r \in Req : r[1] \in Client
  BY DEF Req
<1>4. Unread(g)
  BY <1>1, <1>3 DEF HandlerInv, Unread
<1>5. \A k \in Conn, r \in Req : Has(g, k, r) = Has(h, k, r)
  BY <1>1 DEF Has
<1>6. Delivered(g)
  BY <1>1, <1>5 DEF HandlerInv, Delivered
<1>7. GoodOpen(g)
  BY <1>1 DEF HandlerInv, GoodOpen, Open
<1>8. \A c \in Client, r \in Req : Waits(g, c, r) = Waits(h, c, r)
  BY <1>1 DEF Waits
<1>9. BlockedOK(g)
  BY <1>1, <1>8 DEF HandlerInv, BlockedOK
<1>10. Kept(g, R, K)
  BY <1>1, <1>5, <1>8 DEF HandlerInv, Kept, Open
<1> QED BY <1>1, <1>2, <1>4, <1>6, <1>7, <1>9, <1>10 DEF HandlerInv

\* An answer keeps it, and the request needs no connection any more.
LEMMA AnswersKeep ==
    ASSUME NEW h, NEW g, NEW R, NEW K \in SUBSET Conn, HandlerInv(h, R, K),
           NEW r \in Req, NEW res \in Response, Answers(h, g, r, res),
           r[2] \notin h.cc[r[1]].parsed + 1..MaxReq,
           h.req[r].delivered \/ h.req[r].cmd \notin Blocking
    PROVE  HandlerInv(g, R \ {r}, K)
<1>1. /\ State(g)
      /\ \A c \in Client : /\ g.cc[c].open = h.cc[c].open /\ g.cc[c].good = h.cc[c].good
                           /\ g.cc[c].requests = h.cc[c].requests
                           /\ g.cc[c].parsed = h.cc[c].parsed
                           /\ g.cc[c].messages = h.cc[c].messages
      /\ \A k \in Conn : /\ g.sc[k].link = h.sc[k].link /\ g.sc[k].good = h.sc[k].good
                         /\ g.sc[k].send = h.sc[k].send /\ g.sc[k].sent = h.sc[k].sent
  BY DEF Answers, SameClients, SameConns, SameClient, SameConn
<1>2. Own(g)
  BY <1>1 DEF HandlerInv, Own
<1>3. r[1] \in Client /\ \A s \in Req : s[1] \in Client
  BY DEF Req
<1>4. \A s \in Req : /\ g.req[s].cmd = h.req[s].cmd /\ g.req[s].delivered = h.req[s].delivered
                     /\ g.req[s].res = IF s = r /\ Heeded(h, r) THEN res ELSE h.req[s].res
  <2>1. h.req \in [Req -> Request]
    BY DEF HandlerInv, State
  <2>2. CASE Heeded(h, r)
    <3>1. g.req = [h.req EXCEPT ![r].res = res]
      BY <2>2 DEF Answers
    <3> QED BY <2>1, <2>2, <3>1 DEF Request
  <2>3. CASE ~Heeded(h, r)
    BY <2>3 DEF Answers
  <2> QED BY <2>2, <2>3
<1>5. Unread(g)
  BY <1>1, <1>3, <1>4 DEF HandlerInv, Unread
<1>6. \A k \in Conn, s \in Req : Has(g, k, s) = Has(h, k, s)
  BY <1>1 DEF Has
<1>7. Delivered(g)
  BY <1>4, <1>6 DEF HandlerInv, Delivered
<1>8. GoodOpen(g)
  BY <1>1 DEF HandlerInv, GoodOpen, Open
<1>9. res # "none"
  BY DEF Response
<1>10. \A c \in Client, s \in Req : Contains(h.cc[c].requests, s) => s[1] = c
  BY DEF HandlerInv, Own, Contains
<1>11. \A c \in Client, s \in Req : Waits(g, c, s) <=> Waits(h, c, s) /\ s # r
  <2> TAKE c \in Client, s \in Req
  <2>1. Waits(h, c, r) => Heeded(h, r)
    BY <1>10 DEF Waits, Heeded
  <2>2. Waits(g, c, r) => Heeded(h, r)
    BY <1>1, <1>10 DEF Waits, Heeded
  <2>3. ~Waits(g, c, r)
    BY <1>4, <1>9, <2>2 DEF Waits
  <2>4. s # r => Waits(g, c, s) = Waits(h, c, s)
    BY <1>1, <1>4 DEF Waits
  <2> QED BY <2>3, <2>4
<1>12. BlockedOK(g)
  <2> SUFFICES ASSUME NEW c \in Client, g.cc[c].open, g.cc[c].good, g.cc[c].block
               PROVE  \E s \in Req : Waits(g, c, s) /\ g.req[s].cmd \in Blocking
    BY DEF BlockedOK
  <2>1. h.cc[c].block /\ (Heeded(h, r) => ~(c = r[1] /\ h.req[r].cmd \in Blocking))
    BY DEF Answers, SameBlocks
  <2>2. PICK s \in Req : Waits(h, c, s) /\ h.req[s].cmd \in Blocking
    BY <1>1, <2>1 DEF HandlerInv, BlockedOK
  <2>3. s # r
    BY <1>10, <2>1, <2>2 DEF Waits, Heeded
  <2> QED BY <1>4, <1>11, <2>2, <2>3
<1>13. Kept(g, R \ {r}, K)
  BY <1>1, <1>6, <1>11 DEF HandlerInv, Kept, Open
<1> QED BY <1>1, <1>2, <1>5, <1>7, <1>8, <1>12, <1>13 DEF HandlerInv

-----------------------------------------------------------------------------
(* Closing a connection.                                                   *)

\* What two sequences have in common.
LEMMA BothContain ==
    ASSUME NEW S, NEW a \in Seq(S), NEW b \in Seq(S), NEW r
    PROVE  Contains(a \o b, r) <=> Contains(a, r) \/ Contains(b, r)
<1>1. /\ Len(a \o b) = Len(a) + Len(b) /\ DOMAIN (a \o b) = 1..Len(a) + Len(b)
      /\ DOMAIN a = 1..Len(a) /\ DOMAIN b = 1..Len(b) /\ Len(a) \in Nat /\ Len(b) \in Nat
      /\ \A i \in 1..Len(a) + Len(b) :
            (a \o b)[i] = IF i <= Len(a) THEN a[i] ELSE b[i - Len(a)]
  OBVIOUS
<1>2. ASSUME Contains(a \o b, r) PROVE Contains(a, r) \/ Contains(b, r)
  BY <1>1, <1>2 DEF Contains
<1>3. ASSUME Contains(a, r) PROVE Contains(a \o b, r)
  BY <1>1, <1>3 DEF Contains
<1>4. ASSUME Contains(b, r) PROVE Contains(a \o b, r)
  <2>1. PICK i \in 1..Len(b) : b[i] = r
    BY <1>1, <1>4 DEF Contains
  <2>2. Len(a) + i \in 1..Len(a) + Len(b) /\ ~(Len(a) + i <= Len(a)) /\ (Len(a) + i) - Len(a) = i
    BY <1>1
  <2>3. (a \o b)[Len(a) + i] = r
    BY <1>1, <2>1, <2>2
  <2> QED BY <1>1, <2>2, <2>3 DEF Contains
<1> QED BY <1>2, <1>3, <1>4

\* What is left of q after its first n elements.
Rest(q, n) == {q[i] : i \in n + 1..Len(q)}

AnswerStep(k, res, g, r) == HandleResponse(g, k, r, res)

\* After n answers the others are still missing.
AnswersSoFar(k, res, b, q, n, g) ==
    /\ SameConns(b, g)
    /\ HandlerInv(g, Rest(q, n), Conn \ {k})

AnswerAll == INSTANCE LeftFold WITH Op <- AnswerStep, P <- AnswersSoFar

\* When all requests of a connection are answered none of them needs it.
LEMMA AllAnswered ==
    ASSUME NEW h, NEW k \in Conn, NEW q \in Seq(Req), HandlerInv(h, Rest(q, 0), Conn \ {k}),
           \A i \in 1..Len(q) : Has(h, k, q[i]), NEW res \in Response
    PROVE  AnswersSoFar(k, res, h, q, Len(q),
                        FoldLeft(LAMBDA g, r : HandleResponse(g, k, r, res), h, q))
<1>1. AnswersSoFar(k, res, h, q, 0, h)
  BY FrameSame DEF AnswersSoFar, HandlerInv, Frame
<1>2. ASSUME NEW n \in 1..Len(q), NEW g, AnswersSoFar(k, res, h, q, n - 1, g)
      PROVE  AnswersSoFar(k, res, h, q, n, AnswerStep(k, res, g, q[n]))
  <2> DEFINE r == q[n]
             e == AnswerStep(k, res, g, r)
  <2>1. r \in Req
    OBVIOUS
  <2>2. Has(g, k, r)
    BY <1>2 DEF AnswersSoFar, SameConns, SameConn, Has
  <2>3. g.req[r].delivered /\ r[2] \notin g.cc[r[1]].parsed + 1..MaxReq
    BY <1>2, <2>1, <2>2 DEF AnswersSoFar, HandlerInv, Delivered, Unread
  <2>4. Answers(g, e, r, res)
    BY <1>2, <2>1, HandleResponseAnswers DEF AnswersSoFar, HandlerInv, AnswerStep
  <2> HIDE DEF e, r
  <2>5. HandlerInv(e, Rest(q, n - 1) \ {r}, Conn \ {k})
    BY <1>2, <2>1, <2>3, <2>4, AnswersKeep DEF AnswersSoFar
  <2>6. Rest(q, n - 1) \ {r} \subseteq Rest(q, n)
    BY DEF Rest, r
  <2>7. HandlerInv(e, Rest(q, n), Conn \ {k})
    BY <2>5, <2>6 DEF HandlerInv, Kept
  <2>8. SameConns(h, e)
    BY <1>2, <2>4 DEF AnswersSoFar, Answers, SameConns, SameConn
  <2> QED BY <2>7, <2>8 DEF AnswersSoFar, e, r
<1>3. AnswersSoFar(k, res, h, q, Len(q), AnswerAll!Fold(k, res, h, q))
  BY <1>1, <1>2, AnswerAll!FoldKeeps
<1>4. AnswerAll!Fold(k, res, h, q)
        = FoldLeft(LAMBDA g, r : HandleResponse(g, k, r, res), h, q)
  BY DEF AnswerAll!Fold, AnswerAll!FoldLeft, AnswerAll!MapThenFoldSet, AnswerAll!Max,
         FoldLeft, MapThenFoldSet, Max, AnswerStep
<1> QED BY <1>3, <1>4

\* A connection is closed.
LEMMA CloseKeeps ==
    ASSUME NEW h, HandlerInv(h, {}, Conn), NEW k \in Conn
    PROVE  HandlerInv(Close(h, k), {}, Conn)
<1> DEFINE c == h.sc[k].acc
           q == Unanswered(h, k)
           a == FoldLeft(LAMBDA g, r : HandleResponse(g, k, r, "err"), h, q)
           closed == [a EXCEPT !.sc[k].link = "closed", !.sc[k].good = FALSE,
                               !.sc[k].send = <<>>, !.sc[k].sent = <<>>]
           put == IF k \in Private THEN PutPrivate(closed, k) ELSE closed
           done == IF c = None THEN put ELSE Detach(PostA(put, c, "Error"), c, k)
<1>1. Close(h, k) = done
  BY DEF Close
<1>2. /\ h.sc[k] \in ConnectConn /\ c \in Client \cup {None}
      /\ h.sc[k].sent \in Seq(Req) /\ h.sc[k].send \in Seq(Req)
  BY DEF HandlerInv, State, ConnectConn
<1>3. q \in Seq(Req)
  BY <1>2 DEF Unanswered
<1>4. \A r \in Req : Contains(q, r) <=> Has(h, k, r)
  BY <1>2, BothContain DEF Unanswered, Has
<1>5. \A r \in Req : Has(h, k, r) => r \in Rest(q, 0)
  BY <1>3, <1>4 DEF Contains, Rest
<1>6. \A i \in 1..Len(q) : Has(h, k, q[i])
  BY <1>3, <1>4 DEF Contains
<1>7. HandlerInv(h, Rest(q, 0), Conn \ {k})
  BY <1>5 DEF HandlerInv, Kept
<1> HIDE DEF q
<1>8. AnswersSoFar(k, "err", h, q, Len(q), a)
  BY <1>3, <1>6, <1>7, AllAnswered DEF Response
<1>9. Rest(q, Len(q)) = {}
  BY <1>3 DEF Rest
<1>10. HandlerInv(a, {}, Conn \ {k})
  BY <1>8, <1>9 DEF AnswersSoFar
<1> HIDE DEF a
<1>11. HandlerInv(closed, {}, Conn)
  <2> DEFINE y == [a.sc[k] EXCEPT !.link = "closed", !.good = FALSE,
                                  !.send = <<>>, !.sent = <<>>]
  <2>1. a.sc[k] \in ConnectConn
    BY <1>10 DEF HandlerInv, State
  <2>2. /\ DOMAIN closed = Parts
        /\ closed.cc = a.cc /\ closed.req = a.req /\ closed.idle = a.idle
        /\ closed.postS = a.postS /\ closed.postA = a.postA
        /\ closed.sc = [a.sc EXCEPT ![k] = y]
    <3>1. DOMAIN a = Parts /\ DOMAIN a.sc = Conn
      BY <1>10 DEF HandlerInv, State
    <3>2. DOMAIN closed = Parts
      BY ONLY <3>1 DEF Parts
    <3>3. /\ closed.cc = a.cc /\ closed.req = a.req /\ closed.idle = a.idle
          /\ closed.postS = a.postS /\ closed.postA = a.postA
      BY ONLY <3>1 DEF Parts
    <3>4. closed.sc = [a.sc EXCEPT ![k] = y]
      BY ONLY <3>1, <2>1 DEF Parts, ConnectConn
    <3> QED BY ONLY <3>2, <3>3, <3>4
  <2>3. /\ y \in ConnectConn /\ y.link = "closed" /\ ~y.good
        /\ y.send = <<>> /\ y.sent = <<>>
    <3>1. <<>> \in Seq(Req)
      OBVIOUS
    <3> QED BY <2>1, <3>1 DEF ConnectConn
  <2> HIDE DEF closed, y
  <2>4. State(closed)
    BY <1>10, <2>2, <2>3 DEF HandlerInv, State
  <2>5. \A j \in Conn : closed.sc[j] = IF j = k THEN y ELSE a.sc[j]
    BY <1>10, <2>2 DEF HandlerInv, State
  <2>6. \A j \in Conn, r \in Req : Has(closed, j, r) <=> j # k /\ Has(a, j, r)
    BY <2>3, <2>5 DEF Has, Contains
  <2>7. \A d \in Client, r \in Req : Waits(closed, d, r) = Waits(a, d, r)
    BY <2>2 DEF Waits
  <2>8. Own(closed) /\ Unread(closed)
    <3>1. Own(a) /\ Unread(a)
      BY <1>10 DEF HandlerInv
    <3> QED BY ONLY <2>2, <3>1, OwnSame, UnreadSame
  <2>9. Delivered(closed)
    BY <1>10, <2>2, <2>6 DEF HandlerInv, Delivered
  <2>10. GoodOpen(closed)
    BY <1>10, <2>3, <2>5 DEF HandlerInv, GoodOpen, Open
  <2>11. BlockedOK(closed)
    BY <1>10, <2>2, <2>7 DEF HandlerInv, BlockedOK
  <2>12. Kept(closed, {}, Conn)
    <3> SUFFICES ASSUME NEW d \in Client, NEW r \in Req, Waits(closed, d, r)
                 PROVE  \E j \in Conn : Open(closed.sc[j]) /\ Has(closed, j, r)
      BY DEF Kept
    <3>1. PICK j \in Conn \ {k} : Open(a.sc[j]) /\ Has(a, j, r)
      BY <1>10, <2>7 DEF HandlerInv, Kept
    <3> QED BY <2>5, <2>6, <3>1
  <2> QED BY <2>4, <2>8, <2>9, <2>10, <2>11, <2>12 DEF HandlerInv
<1> HIDE DEF closed
<1>12. Frame(closed, put)
  BY <1>11, PushBackFrame, FrameSame DEF HandlerInv, PutPrivate
<1> HIDE DEF put
<1>13. Frame(put, done)
  <2>1. State(put)
    BY <1>12 DEF Frame
  <2>2. ASSUME c \in Client PROVE Frame(put, Detach(PostA(put, c, "Error"), c, k))
    <3>1. Frame(put, PostA(put, c, "Error"))
      BY <2>1, <2>2, PostAFrame DEF Event
    <3>2. Frame(PostA(put, c, "Error"), Detach(PostA(put, c, "Error"), c, k))
      BY <2>2, <3>1, DetachFrame DEF Frame
    <3> QED BY <3>1, <3>2, FrameTrans
  <2> QED BY <1>2, <2>1, <2>2, FrameSame
<1> HIDE DEF done
<1>14. HandlerInv(done, {}, Conn)
  BY <1>11, <1>12, <1>13, FrameTrans, FrameKeeps
<1> QED BY <1>1, <1>14

-----------------------------------------------------------------------------
(* Writing to a connection.                                                *)

\* Only the connections have changed.
LEMMA ConnsKeep ==
    ASSUME NEW h, NEW R, NEW K, HandlerInv(h, R, K),
           NEW g, State(g), SameClients(h, g), SameBlocks(h, g), g.req = h.req, GoodOpen(g),
           \A j \in Conn, s \in Req : Has(g, j, s) => h.req[s].delivered,
           NEW Q, NEW L, Kept(g, Q, L)
    PROVE  HandlerInv(g, Q, L)
<1>1. \A c \in Client : /\ g.cc[c].open = h.cc[c].open /\ g.cc[c].good = h.cc[c].good
                        /\ g.cc[c].requests = h.cc[c].requests
                        /\ g.cc[c].parsed = h.cc[c].parsed
                        /\ g.cc[c].messages = h.cc[c].messages
                        /\ g.cc[c].block = h.cc[c].block
  BY DEF SameClients, SameBlocks, SameClient
<1>2. \A r \in Req : r[1] \in Client
  BY DEF Req
<1>3. Own(g) /\ Unread(g)
  <2>1. Own(h) /\ Unread(h) /\ g.req = h.req
    BY DEF HandlerInv
  <2> QED BY ONLY <1>1, <2>1, OwnSame, UnreadSame
<1>4. Delivered(g)
  BY DEF HandlerInv, Delivered
<1>5. \A c \in Client, r \in Req : Waits(g, c, r) = Waits(h, c, r)
  BY <1>1 DEF Waits
<1>6. BlockedOK(g)
  BY <1>1, <1>5 DEF HandlerInv, BlockedOK
<1> QED BY <1>3, <1>4, <1>6 DEF HandlerInv

\* A request that is put on an open connection needs no other.
LEMMA PlaceKeeps ==
    ASSUME NEW h, NEW R, NEW K \in SUBSET Conn, HandlerInv(h, R, K),
           NEW k \in K, Open(h.sc[k]), NEW r \in Req, h.req[r].delivered,
           NEW g, DOMAIN g = Parts, g.cc = h.cc, g.req = h.req, g.idle = h.idle,
           g.postS = h.postS, g.postA = h.postA,
           \/ g.sc = [h.sc EXCEPT ![k].sent = Append(@, r)]
           \/ g.sc = [h.sc EXCEPT ![k].send = Append(@, r)]
    PROVE  HandlerInv(g, R \ {r}, K)
<1>1. h.sc \in [Conn -> ConnectConn] /\ h.sc[k] \in ConnectConn
  BY DEF HandlerInv, State
<1>2. h.sc[k].sent \in Seq(Req) /\ h.sc[k].send \in Seq(Req)
  BY <1>1 DEF ConnectConn
<1>3. \A q \in Seq(Req) : /\ Append(q, r) \in Seq(Req)
                          /\ \A s \in Req : Contains(Append(q, r), s) <=> Contains(q, s) \/ s = r
  <2> TAKE q \in Seq(Req)
  <2>1. /\ Append(q, r) \in Seq(Req) /\ Len(Append(q, r)) = Len(q) + 1 /\ Len(q) \in Nat
        /\ DOMAIN q = 1..Len(q) /\ DOMAIN Append(q, r) = 1..Len(q) + 1
        /\ \A i \in 1..Len(q) + 1 : Append(q, r)[i] = IF i <= Len(q) THEN q[i] ELSE r
    OBVIOUS
  <2>2. Len(q) + 1 \in 1..Len(q) + 1 /\ ~(Len(q) + 1 <= Len(q))
    BY <2>1
  <2> QED BY <2>1, <2>2 DEF Contains
<1>4. PICK y \in ConnectConn :
         /\ g.sc = [h.sc EXCEPT ![k] = y]
         /\ y.link = h.sc[k].link /\ y.good = h.sc[k].good
         /\ \A s \in Req : Contains(y.sent, s) \/ Contains(y.send, s) <=> Has(h, k, s) \/ s = r
  <2>1. CASE g.sc = [h.sc EXCEPT ![k].sent = Append(@, r)]
    <3> DEFINE y == [h.sc[k] EXCEPT !.sent = Append(@, r)]
    <3>1. y \in ConnectConn /\ y.link = h.sc[k].link /\ y.good = h.sc[k].good
            /\ y.sent = Append(h.sc[k].sent, r) /\ y.send = h.sc[k].send
      BY <1>1, <1>2, <1>3 DEF ConnectConn
    <3>2. g.sc = [h.sc EXCEPT ![k] = y]
      BY <2>1
    <3> HIDE DEF y
    <3>3. \A s \in Req : Contains(y.sent, s) \/ Contains(y.send, s) <=> Has(h, k, s) \/ s = r
      BY <1>2, <1>3, <3>1 DEF Has
    <3> QED BY <3>1, <3>2, <3>3
  <2>2. CASE g.sc = [h.sc EXCEPT ![k].send = Append(@, r)]
    <3> DEFINE y == [h.sc[k] EXCEPT !.send = Append(@, r)]
    <3>1. y \in ConnectConn /\ y.link = h.sc[k].link /\ y.good = h.sc[k].good
            /\ y.send = Append(h.sc[k].send, r) /\ y.sent = h.sc[k].sent
      BY <1>1, <1>2, <1>3 DEF ConnectConn
    <3>2. g.sc = [h.sc EXCEPT ![k] = y]
      BY <2>2
    <3> HIDE DEF y
    <3>3. \A s \in Req : Contains(y.sent, s) \/ Contains(y.send, s) <=> Has(h, k, s) \/ s = r
      BY <1>2, <1>3, <3>1 DEF Has
    <3> QED BY <3>1, <3>2, <3>3
  <2> QED BY <2>1, <2>2
<1>5. State(g)
  BY <1>4 DEF HandlerInv, State
<1>6. SameClients(h, g) /\ SameBlocks(h, g)
  BY DEF HandlerInv, State, SameClients, SameBlocks, SameClient
<1>7. \A j \in Conn : g.sc[j] = IF j = k THEN y ELSE h.sc[j]
  BY <1>1, <1>4
<1>8. \A j \in Conn, s \in Req : Has(g, j, s) <=> Has(h, j, s) \/ (j = k /\ s = r)
  BY <1>4, <1>7 DEF Has
<1>9. \A j \in Conn : g.sc[j].link = h.sc[j].link /\ g.sc[j].good = h.sc[j].good
  BY <1>4, <1>7
<1>10. GoodOpen(g)
  BY <1>9 DEF HandlerInv, GoodOpen, Open
<1>11. \A j \in Conn, s \in Req : Has(g, j, s) => h.req[s].delivered
  BY <1>8 DEF HandlerInv, Delivered
<1>12. Kept(g, R \ {r}, K)
  <2> SUFFICES ASSUME NEW c \in Client, NEW s \in Req, Waits(g, c, s)
               PROVE  s \in R \ {r} \/ \E j \in K : Open(g.sc[j]) /\ Has(g, j, s)
    BY DEF Kept
  <2>1. Waits(h, c, s)
    BY DEF Waits
  <2>2. s \in R \/ \E j \in K : Open(h.sc[j]) /\ Has(h, j, s)
    BY <2>1 DEF HandlerInv, Kept
  <2>3. CASE s = r
    BY <1>8, <1>9, <2>3 DEF Open
  <2>4. CASE s # r
    BY <1>8, <1>9, <2>2, <2>4 DEF Open
  <2> QED BY <2>3, <2>4
<1> QED BY <1>5, <1>6, <1>10, <1>11, <1>12, ConnsKeep

WriteStep(k, y, g, r) == SentOrEmpty(g, k, r)

\* After n requests were dealt with the others are on no connection.
WritesSoFar(k, y, b, q, n, g) ==
    /\ HandlerInv(g, Rest(q, n), Conn)
    /\ Open(g.sc[k])
    /\ \A r \in Req : g.req[r].delivered = b.req[r].delivered

WriteAll == INSTANCE LeftFold WITH Op <- WriteStep, P <- WritesSoFar

\* A sequence is cut in two.
LEMMA CutContain ==
    ASSUME NEW S, NEW q \in Seq(S), NEW m \in 0..Len(q)
    PROVE  /\ SubSeq(q, 1, m) \in Seq(S) /\ SubSeq(q, m + 1, Len(q)) \in Seq(S)
           /\ \A r : Contains(q, r) <=> \/ Contains(SubSeq(q, 1, m), r)
                                        \/ Contains(SubSeq(q, m + 1, Len(q)), r)
<1> DEFINE a == SubSeq(q, 1, m)
           b == SubSeq(q, m + 1, Len(q))
<1>1. /\ a \in Seq(S) /\ DOMAIN a = 1..m /\ \A i \in 1..m : a[i] = q[i]
      /\ DOMAIN q = 1..Len(q) /\ Len(q) \in Nat /\ m \in Nat /\ m <= Len(q)
  OBVIOUS
<1>2. /\ b \in Seq(S) /\ DOMAIN b = 1..Len(q) - m
      /\ \A i \in 1..Len(q) - m : b[i] = q[m + i]
  <2>1. m + 1 \in Nat /\ Len(q) - (m + 1) + 1 = Len(q) - m
    OBVIOUS
  <2> QED BY <2>1
<1> HIDE DEF a, b
<1>3. ASSUME NEW r, Contains(q, r) PROVE Contains(a, r) \/ Contains(b, r)
  <2>1. PICK i \in 1..Len(q) : q[i] = r
    BY <1>1, <1>3 DEF Contains
  <2>2. CASE i <= m
    BY <1>1, <2>1, <2>2 DEF Contains
  <2>3. CASE i > m
    <3>1. i - m \in 1..Len(q) - m /\ m + (i - m) = i
      BY <1>1, <2>1, <2>3
    <3>2. b[i - m] = q[m + (i - m)]
      BY <1>2, <3>1
    <3> QED BY <1>2, <2>1, <3>1, <3>2 DEF Contains
  <2> QED BY <1>1, <2>1, <2>2, <2>3
<1>4. ASSUME NEW r, Contains(a, r) \/ Contains(b, r) PROVE Contains(q, r)
  <2>1. CASE Contains(a, r)
    BY <1>1, <2>1 DEF Contains
  <2>2. CASE Contains(b, r)
    <3>1. PICK i \in 1..Len(q) - m : b[i] = r
      BY <1>2, <2>2 DEF Contains
    <3>2. m + i \in 1..Len(q)
      BY <1>1
    <3> QED BY <1>1, <1>2, <3>1, <3>2 DEF Contains
  <2> QED BY <1>4, <2>1, <2>2
<1> QED BY <1>1, <1>2, <1>3, <1>4 DEF a, b

\* What write() does with a request.
LEMMA SentOrEmptyKeeps ==
    ASSUME NEW h, NEW R, HandlerInv(h, R, Conn), NEW k \in Conn, Open(h.sc[k]),
           NEW r \in Req, h.req[r].delivered
    PROVE  /\ HandlerInv(SentOrEmpty(h, k, r), R \ {r}, Conn)
           /\ Open(SentOrEmpty(h, k, r).sc[k])
           /\ \A s \in Req : SentOrEmpty(h, k, r).req[s].delivered = h.req[s].delivered
<1> DEFINE g == SentOrEmpty(h, k, r)
<1>1. State(h) /\ h.sc[k] \in ConnectConn
  BY DEF HandlerInv, State
<1>2. CASE HasBody(h, r)
  <2>1. g = [h EXCEPT !.sc[k].sent = Append(@, r)]
    BY <1>2 DEF SentOrEmpty
  <2>2. /\ DOMAIN g = Parts /\ g.cc = h.cc /\ g.req = h.req /\ g.idle = h.idle
        /\ g.postS = h.postS /\ g.postA = h.postA
        /\ g.sc = [h.sc EXCEPT ![k].sent = Append(@, r)]
    BY <1>1, <2>1 DEF State, Parts
  <2> HIDE DEF g
  <2>3. HandlerInv(g, R \ {r}, Conn)
    BY <2>2, PlaceKeeps
  <2>4. Open(g.sc[k])
    BY <1>1, <2>2 DEF State, ConnectConn, Open
  <2> QED BY <2>2, <2>3, <2>4 DEF g
<1>3. CASE ~HasBody(h, r)
  <2>1. g = HandleResponse(h, k, r, "null")
    BY <1>3 DEF SentOrEmpty
  <2> HIDE DEF g
  <2>2. Answers(h, g, r, "null")
    BY <1>1, <2>1, HandleResponseAnswers DEF Response
  <2>3. r[2] \notin h.cc[r[1]].parsed + 1..MaxReq
    BY DEF HandlerInv, Unread
  <2>4. HandlerInv(g, R \ {r}, Conn)
    BY <2>2, <2>3, AnswersKeep DEF Response
  <2>5. Open(g.sc[k])
    BY <2>2 DEF Answers, SameConns, SameConn, Open
  <2>6. \A s \in Req : g.req[s].delivered = h.req[s].delivered
    <3>1. h.req \in [Req -> Request]
      BY <1>1 DEF State
    <3>2. g.req = h.req \/ g.req = [h.req EXCEPT ![r].res = "null"]
      BY <2>2 DEF Answers
    <3> QED BY ONLY <3>1, <3>2, r \in Req DEF Request
  <2> QED BY <2>4, <2>5, <2>6 DEF g
<1> QED BY <1>2, <1>3

\* Connection k writes its first m requests.
WriteFirst(h, k, m) ==
    FoldLeft(LAMBDA g, r : SentOrEmpty(g, k, r),
             [h EXCEPT !.sc[k].send = SubSeq(h.sc[k].send, m + 1, Len(h.sc[k].send))],
             SubSeq(h.sc[k].send, 1, m))

\* That is what write() does, up to the last one with a body.
LEMMA WriteIs ==
    ASSUME NEW h, State(h), NEW k \in Conn
    PROVE  \E m \in 0..Len(h.sc[k].send) : Write(h, k) = WriteFirst(h, k, m)
<1> DEFINE q == h.sc[k].send
           m == IF \E i \in DOMAIN q : HasBody(h, q[i])
                THEN CHOOSE i \in DOMAIN q :
                       HasBody(h, q[i]) /\ \A j \in i + 1..Len(q) : ~HasBody(h, q[j])
                ELSE 0
<1>1. Write(h, k) = WriteFirst(h, k, m)
  BY DEF Write, WriteFirst
<1>3. q \in Seq(Req)
  BY DEF ConnectConn, State
<1>4. m \in 0..Len(q)
  <2> DEFINE T == {i \in 1..Len(q) : HasBody(h, q[i])}
  <2>1. DOMAIN q = 1..Len(q) /\ Len(q) \in Nat
    BY <1>3
  <2>2. ASSUME T # {}
        PROVE  \E i \in DOMAIN q : HasBody(h, q[i]) /\ \A j \in i + 1..Len(q) : ~HasBody(h, q[j])
    <3>1. PICK i \in T : \A j \in T : i >= j
      BY <2>1, <2>2, WriteAll!MaxIn
    <3> QED BY <2>1, <3>1
  <2>3. CASE T = {}
    BY <2>1, <2>3
  <2>4. CASE T # {}
    <3>1. \E i \in DOMAIN q : HasBody(h, q[i])
      BY <2>1, <2>4
    <3>2. m = CHOOSE i \in DOMAIN q :
                HasBody(h, q[i]) /\ \A j \in i + 1..Len(q) : ~HasBody(h, q[j])
      BY <3>1
    <3> HIDE DEF m
    <3>3. m \in DOMAIN q
      BY <2>2, <2>4, <3>2
    <3> QED BY <2>1, <3>3
  <2> QED BY <2>3, <2>4
<1> HIDE DEF m
<1> QED BY <1>1, <1>4

\* A good connection is written.
LEMMA WriteKeeps ==
    ASSUME NEW h, HandlerInv(h, {}, Conn), NEW k \in Conn, h.sc[k].good
    PROVE  HandlerInv(Write(h, k), {}, Conn)
<1>0. PICK m \in 0..Len(h.sc[k].send) : Write(h, k) = WriteFirst(h, k, m)
  BY WriteIs DEF HandlerInv
<1> DEFINE q == h.sc[k].send
           p == SubSeq(q, 1, m)
           b == [h EXCEPT !.sc[k].send = SubSeq(q, m + 1, Len(q))]
<1>1. Write(h, k) = FoldLeft(LAMBDA g, r : SentOrEmpty(g, k, r), b, p)
  BY <1>0 DEF WriteFirst
<1>2. h.sc[k] \in ConnectConn /\ State(h)
  BY DEF HandlerInv, State
<1>3. q \in Seq(Req)
  BY <1>2 DEF ConnectConn
<1>4. m \in 0..Len(q)
  BY <1>0
<1>5. /\ p \in Seq(Req) /\ SubSeq(q, m + 1, Len(q)) \in Seq(Req)
      /\ \A r : Contains(q, r) <=> Contains(p, r) \/ Contains(SubSeq(q, m + 1, Len(q)), r)
  BY <1>3, <1>4, CutContain
<1>6. HandlerInv(b, Rest(p, 0), Conn) /\ Open(b.sc[k]) /\ b.req = h.req
  <2> DEFINE y == [h.sc[k] EXCEPT !.send = SubSeq(q, m + 1, Len(q))]
  <2>1. /\ DOMAIN b = Parts /\ b.cc = h.cc /\ b.req = h.req /\ b.idle = h.idle
        /\ b.postS = h.postS /\ b.postA = h.postA
        /\ b.sc = [h.sc EXCEPT ![k] = y]
    BY <1>2 DEF State, Parts
  <2>2. /\ y \in ConnectConn /\ y.link = h.sc[k].link /\ y.good = h.sc[k].good
        /\ y.sent = h.sc[k].sent /\ y.send = SubSeq(q, m + 1, Len(q))
    BY <1>2, <1>5 DEF ConnectConn
  <2> HIDE DEF b, y
  <2>3. \A j \in Conn : b.sc[j] = IF j = k THEN y ELSE h.sc[j]
    BY <1>2, <2>1 DEF State
  <2>4. State(b) /\ SameClients(h, b) /\ SameBlocks(h, b)
    BY <1>2, <2>1, <2>2 DEF State, SameClients, SameBlocks, SameClient
  <2>5. \A j \in Conn : b.sc[j].link = h.sc[j].link /\ b.sc[j].good = h.sc[j].good
    BY <2>2, <2>3
  <2>6. GoodOpen(b) /\ Open(b.sc[k])
    BY <2>5 DEF HandlerInv, GoodOpen, Open
  <2>7. \A j \in Conn, r \in Req : Has(b, j, r) => Has(h, j, r)
    BY <1>5, <2>2, <2>3 DEF Has
  <2>8. \A j \in Conn, r \in Req : Has(h, j, r) => Has(b, j, r) \/ Contains(p, r)
    BY <1>5, <2>2, <2>3 DEF Has
  <2>9. \A r : Contains(p, r) => r \in Rest(p, 0)
    BY <1>5 DEF Contains, Rest
  <2>10. Kept(b, Rest(p, 0), Conn)
    <3>1. \A c \in Client, r \in Req : Waits(b, c, r) = Waits(h, c, r)
      BY <2>1 DEF Waits
    <3> QED BY <2>5, <2>8, <2>9, <3>1 DEF HandlerInv, Kept, Open
  <2>11. \A j \in Conn, r \in Req : Has(b, j, r) => h.req[r].delivered
    BY <2>7 DEF HandlerInv, Delivered
  <2> QED BY <2>1, <2>4, <2>6, <2>10, <2>11, ConnsKeep
<1>7. \A i \in 1..Len(p) : p[i] \in Req /\ b.req[p[i]].delivered
  <2>1. \A i \in 1..Len(p) : p[i] \in Req /\ Contains(p, p[i])
    BY <1>5 DEF Contains
  <2>2. \A i \in 1..Len(p) : Has(h, k, p[i])
    BY <1>5, <2>1 DEF Has
  <2> QED BY <1>6, <2>1, <2>2 DEF HandlerInv, Delivered
<1> HIDE DEF p, b
<1>8. WritesSoFar(k, 0, b, p, 0, b)
  BY <1>6 DEF WritesSoFar
<1>9. ASSUME NEW n \in 1..Len(p), NEW g, WritesSoFar(k, 0, b, p, n - 1, g)
      PROVE  WritesSoFar(k, 0, b, p, n, WriteStep(k, 0, g, p[n]))
  <2> DEFINE r == p[n]
             e == SentOrEmpty(g, k, r)
  <2>1. r \in Req /\ g.req[r].delivered
    BY <1>7, <1>9 DEF WritesSoFar
  <2>2. /\ HandlerInv(e, Rest(p, n - 1) \ {r}, Conn) /\ Open(e.sc[k])
        /\ \A s \in Req : e.req[s].delivered = g.req[s].delivered
    BY <1>9, <2>1, SentOrEmptyKeeps DEF WritesSoFar
  <2> HIDE DEF e
  <2>3. Rest(p, n - 1) \ {r} \subseteq Rest(p, n)
    BY <1>5 DEF Rest
  <2>4. HandlerInv(e, Rest(p, n), Conn)
    BY <2>2, <2>3 DEF HandlerInv, Kept
  <2>5. \A s \in Req : e.req[s].delivered = b.req[s].delivered
    BY <1>9, <2>2 DEF WritesSoFar
  <2> QED BY <2>2, <2>4, <2>5 DEF WritesSoFar, WriteStep, e
<1>10. WritesSoFar(k, 0, b, p, Len(p), WriteAll!Fold(k, 0, b, p))
  BY <1>5, <1>8, <1>9, WriteAll!FoldKeeps
<1>11. WriteAll!Fold(k, 0, b, p) = FoldLeft(LAMBDA g, r : SentOrEmpty(g, k, r), b, p)
  BY DEF WriteAll!Fold, WriteAll!FoldLeft, WriteAll!MapThenFoldSet, WriteAll!Max,
         FoldLeft, MapThenFoldSet, Max, WriteStep
<1>12. Rest(p, Len(p)) = {}
  BY <1>5 DEF Rest
<1> QED BY <1>1, <1>10, <1>11, <1>12 DEF WritesSoFar, p, b

-----------------------------------------------------------------------------
(* Getting a connection.                                                   *)

\* Connections that were not open may be opened; the rest is within the frame.
Gets(h, g) ==
    /\ State(g) /\ SameClients(h, g) /\ SameBlocks(h, g) /\ g.req = h.req /\ GoodOpen(g)
    /\ \A k \in Conn : /\ g.sc[k].send = h.sc[k].send /\ g.sc[k].sent = h.sc[k].sent
                       /\ Open(h.sc[k]) => Open(g.sc[k])

\* Two such changes are one.
LEMMA GetsTrans == ASSUME NEW f, NEW g, NEW h, Gets(f, g), Gets(g, h) PROVE Gets(f, h)
BY DEF Gets, SameClients, SameBlocks, SameClient

\* A change within the frame is one.
LEMMA FrameGets == ASSUME NEW h, GoodOpen(h), NEW g, Frame(h, g) PROVE Gets(h, g)
BY DEF Gets, Frame, GoodOpen, SameConns, SameConn, Open

\* The invariant is kept.
LEMMA GetsKeep ==
    ASSUME NEW h, NEW R, NEW K \in SUBSET Conn, HandlerInv(h, R, K), NEW g, Gets(h, g)
    PROVE  HandlerInv(g, R, K)
<1>1. \A k \in Conn, r \in Req : Has(g, k, r) = Has(h, k, r)
  BY DEF Gets, Has
<1>2. \A c \in Client, r \in Req : Waits(g, c, r) = Waits(h, c, r)
  BY DEF Gets, SameClients, SameClient, Waits
<1>3. Kept(g, R, K)
  BY <1>1, <1>2 DEF HandlerInv, Kept, Gets
<1>4. \A k \in Conn, r \in Req : Has(g, k, r) => h.req[r].delivered
  BY <1>1 DEF HandlerInv, Delivered
<1> QED BY <1>3, <1>4, ConnsKeep DEF Gets

\* What is got, from the handler's state h.
Gives(h, e) == Gets(h, e.state) /\ e.conn \in Conn \cup {None}

\* It may be a connection, or none ...
LEMMA GotGives ==
    ASSUME NEW h, NEW g, Gets(h, g), NEW k \in Conn \cup {None}
    PROVE  Gives(h, Got(g, k))
BY DEF Gives, Got

\* ... none, as the server is found failed.
LEMMA UnavailableGives ==
    ASSUME NEW h, NEW g, Gets(h, g)
    PROVE  \A e \in Unavailable(g) : Gives(h, e)
<1>1. \A e \in Unavailable(g) : e = Got(g, None)
  BY DEF Unavailable
<1>2. Gives(h, Got(g, None))
  BY GotGives
<1> QED BY <1>1, <1>2

\* It may be withheld.
LEMMA CheckedGives ==
    ASSUME NEW h, NEW S, \A e \in S : Gives(h, e)
    PROVE  \A e \in Checked(S) : Gives(h, e)
<1>1. \A g \in S : \A e \in Unavailable(g.state) : Gives(h, e)
  BY UnavailableGives DEF Gives
<1> HIDE DEF Unavailable
<1>2. \A e \in Checked(S) : e \in S \/ \E g \in S : e \in Unavailable(g.state)
  BY DEF Checked
<1> QED BY <1>1, <1>2

\* A connection that was not open is opened, or not.
LEMMA OpenConnGives ==
    ASSUME NEW h, State(h), GoodOpen(h), NEW k \in Conn, ~Open(h.sc[k])
    PROVE  \A e \in OpenConn(h, k) : Gives(h, e)
<1>1. SUFFICES ASSUME NEW l \in {"open", "closed"}, NEW b \in BOOLEAN, b => l = "open"
             PROVE  Gets(h, [h EXCEPT !.sc[k].link = l, !.sc[k].good = b])
  <2> DEFINE open == [h EXCEPT !.sc[k].link = "open", !.sc[k].good = TRUE]
             closed == [h EXCEPT !.sc[k].link = "closed", !.sc[k].good = FALSE]
  <2>1. Gets(h, open) /\ Gets(h, closed)
    BY <1>1
  <2>2. OpenConn(h, k) \subseteq {Got(open, k), Got(closed, None)}
    BY DEF OpenConn
  <2> HIDE DEF open, closed
  <2>3. Gives(h, Got(open, k)) /\ Gives(h, Got(closed, None))
    BY <2>1, GotGives
  <2> QED BY <2>2, <2>3
<1> DEFINE g == [h EXCEPT !.sc[k].link = l, !.sc[k].good = b]
           y == [h.sc[k] EXCEPT !.link = l, !.good = b]
<1>2. h.sc[k] \in ConnectConn
  BY DEF State
<1>3. /\ DOMAIN g = Parts /\ g.cc = h.cc /\ g.req = h.req /\ g.idle = h.idle
      /\ g.postS = h.postS /\ g.postA = h.postA
      /\ g.sc = [h.sc EXCEPT ![k] = y]
  BY <1>2 DEF State, Parts
<1>4. /\ y \in ConnectConn /\ y.link = l /\ y.good = b
      /\ y.send = h.sc[k].send /\ y.sent = h.sc[k].sent
  BY <1>2 DEF ConnectConn
<1> HIDE DEF g, y
<1>5. \A j \in Conn : g.sc[j] = IF j = k THEN y ELSE h.sc[j]
  BY <1>3 DEF State
<1>6. State(g) /\ SameClients(h, g) /\ SameBlocks(h, g)
  BY <1>3, <1>4 DEF State, SameClients, SameBlocks, SameClient
<1>7. GoodOpen(g)
  BY <1>1, <1>4, <1>5 DEF GoodOpen, Open
<1>8. \A j \in Conn : /\ g.sc[j].send = h.sc[j].send /\ g.sc[j].sent = h.sc[j].sent
                      /\ Open(h.sc[j]) => Open(g.sc[j])
  BY <1>4, <1>5 DEF Open
<1>9. g.req = h.req
  BY <1>3
<1>10. Gets(h, g)
  BY <1>6, <1>7, <1>8, <1>9 DEF Gets
<1> QED BY <1>10 DEF g

\* A private connection that cannot be opened is put back.
LEMMA OpenPrivateGives ==
    ASSUME NEW h, State(h), GoodOpen(h), NEW k \in Conn, ~Open(h.sc[k])
    PROVE  \A e \in OpenPrivate(h, k) : Gives(h, e)
<1>1. \A e \in OpenConn(h, k) : Gives(h, e)
  BY OpenConnGives
<1>2. ASSUME NEW e \in OpenConn(h, k) PROVE Gives(h, Got(PutPrivate(e.state, k), None))
  <2>1. Gets(h, e.state) /\ State(e.state) /\ GoodOpen(e.state)
    BY <1>1, <1>2 DEF Gives, Gets
  <2>2. Gets(e.state, PutPrivate(e.state, k))
    BY <2>1, PushBackFrame, FrameGets DEF PutPrivate
  <2> QED BY <2>1, <2>2, GetsTrans DEF Gives, Got
<1> QED BY <1>1, <1>2 DEF OpenPrivate

\* However a connection is got.
LEMMA GetConnectionGives ==
    ASSUME NEW h, State(h), GoodOpen(h), NEW c \in Client, NEW cmd
    PROVE  \A e \in GetConnection(h, c, cmd) : Gives(h, e)
<1> USE SessionAssumption
<1>1. Gets(h, h)
  BY FrameSame, FrameGets
<1>2. \A e \in Unavailable(h) : Gives(h, e)
  BY <1>1, UnavailableGives
<1>3. h.cc[c].conn \in Conn \cup {None} /\ Shared \in Conn /\ Private \subseteq Conn
  BY DEF State, AcceptConn, Conn
<1>4. Gives(h, Got(h, h.cc[c].conn))
  BY <1>1, <1>3 DEF Gives, Got
<1>5. \A e \in GetShare(h) : Gives(h, e)
  <2>1. CASE Open(h.sc[Shared])
    <3>1. \A e \in {Got(h, Shared)} : Gives(h, e)
      BY <1>1, <1>3 DEF Gives, Got
    <3>2. \A e \in Checked({Got(h, Shared)}) : Gives(h, e)
      BY <3>1, CheckedGives
    <3> QED BY <2>1, <3>2 DEF GetShare
  <2>2. CASE ~Open(h.sc[Shared])
    <3>1. \A e \in Checked(OpenConn(h, Shared)) : Gives(h, e)
      BY <1>3, <2>2, OpenConnGives, CheckedGives
    <3> QED BY <1>2, <2>2, <3>1 DEF GetShare
  <2> QED BY <2>1, <2>2
<1>6. \A e \in GetPrivate(h) : Gives(h, e)
  <2> DEFINE k == h.idle.head
             unmade == {p \in Private : h.sc[p].link = "none"}
             taken == PopFront(h, "idle")
  <2>1. k \in Conn \cup {None}
    BY DEF State, List
  <2>2. CASE k = None
    <3>1. ASSUME NEW p \in unmade PROVE \A e \in OpenPrivate(h, p) : Gives(h, e)
      BY <1>3, <3>1, OpenPrivateGives DEF Open
    <3>2. \A e \in UNION {OpenPrivate(h, p) : p \in unmade} : Gives(h, e)
      BY <3>1
    <3>3. \A e \in Checked(UNION {OpenPrivate(h, p) : p \in unmade}) : Gives(h, e)
      BY <3>2, CheckedGives
    <3> QED BY <1>2, <2>2, <3>3 DEF GetPrivate
  <2>3. CASE k # None
    <3>1. k \in Conn
      BY <2>1, <2>3
    <3>2. Frame(h, taken)
      BY <3>1, PopFrontFrame
    <3>3. Gets(h, taken) /\ State(taken) /\ GoodOpen(taken)
      BY <3>2, FrameGets DEF Gets
    <3>4. Open(taken.sc[k]) = Open(h.sc[k])
      BY <3>1, <3>2 DEF Frame, SameConns, SameConn, Open
    <3> HIDE DEF taken
    <3>5. CASE Open(h.sc[k])
      <4>1. \A e \in {Got(taken, k)} : Gives(h, e)
        BY <3>1, <3>3 DEF Gives, Got
      <4>2. \A e \in Checked({Got(taken, k)}) : Gives(h, e)
        BY <4>1, CheckedGives
      <4> QED BY <2>3, <3>5, <4>2 DEF GetPrivate, taken
    <3>6. CASE ~Open(h.sc[k])
      <4>1. \A e \in OpenPrivate(taken, k) : Gives(taken, e)
        BY <3>1, <3>3, <3>4, <3>6, OpenPrivateGives
      <4>2. \A e \in OpenPrivate(taken, k) : Gives(h, e)
        BY <3>3, <4>1, GetsTrans DEF Gives
      <4>3. \A e \in Checked(OpenPrivate(taken, k)) : Gives(h, e)
        BY <4>2, CheckedGives
      <4>4. \A e \in Unavailable(taken) : Gives(h, e)
        BY <3>3, UnavailableGives
      <4> QED BY <2>3, <3>6, <4>3, <4>4 DEF GetPrivate, taken
    <3> QED BY <3>5, <3>6
  <2> QED BY <2>2, <2>3
<1> QED BY <1>4, <1>5, <1>6 DEF GetConnection

-----------------------------------------------------------------------------
(* Handling a request.                                                     *)

\* Request r is marked delivered.
Delivering(h, r) == [h EXCEPT !.req[r].delivered = TRUE]

\* A request of its client that was not delivered yet.
New(h, r) == Contains(h.cc[r[1]].requests, r) /\ ~h.req[r].delivered

\* It needs a connection then.
LEMMA DeliveringKeeps ==
    ASSUME NEW h, HandlerInv(h, {}, Conn), NEW r \in Req, New(h, r)
    PROVE  /\ HandlerInv(Delivering(h, r), {r}, Conn)
           /\ Delivering(h, r).cc = h.cc /\ Delivering(h, r).postA = h.postA
           /\ Delivering(h, r).req = [h.req EXCEPT ![r].delivered = TRUE]
<1> DEFINE g == Delivering(h, r)
<1>1. State(h) /\ r[1] \in Client /\ h.req[r] \in Request
  BY DEF HandlerInv, State, Req
<1>2. /\ DOMAIN g = Parts /\ g.cc = h.cc /\ g.sc = h.sc /\ g.idle = h.idle
      /\ g.postS = h.postS /\ g.postA = h.postA
      /\ g.req = [h.req EXCEPT ![r].delivered = TRUE]
  BY <1>1 DEF Delivering, State, Parts
<1> HIDE DEF g
<1>3. [h.req[r] EXCEPT !.delivered = TRUE] \in Request
  BY <1>1 DEF Request
<1>4. g.req \in [Req -> Request]
  BY <1>1, <1>2, <1>3 DEF State
<1>5. \A s \in Req : /\ g.req[s].cmd = h.req[s].cmd /\ g.req[s].res = h.req[s].res
                     /\ g.req[s].delivered <=> h.req[s].delivered \/ s = r
  <2> TAKE s \in Req
  <2>1. CASE s = r
    <3>1. g.req[s] = [h.req[r] EXCEPT !.delivered = TRUE]
      BY <1>1, <1>2, <2>1 DEF State
    <3> QED BY <1>1, <2>1, <3>1 DEF Request
  <2>2. CASE s # r
    <3>1. g.req[s] = h.req[s]
      BY <1>1, <1>2, <2>2 DEF State
    <3> QED BY <2>2, <3>1
  <2> QED BY <2>1, <2>2
<1>6. State(g)
  BY <1>1, <1>2, <1>4 DEF State
<1>7. r[2] \notin h.cc[r[1]].parsed + 1..MaxReq
  <2>1. r[2] \in (1..h.cc[r[1]].parsed) \cup (MaxReq + 1..MaxReq + h.cc[r[1]].messages)
    BY <1>1 DEF HandlerInv, Own, New, Contains
  <2>2. h.cc[r[1]].parsed \in Nat /\ h.cc[r[1]].messages \in Nat /\ MaxReq \in Nat
    BY <1>1, SessionAssumption DEF State, AcceptConn
  <2> QED BY <2>1, <2>2
<1>8. Own(g) /\ GoodOpen(g)
  BY <1>2 DEF HandlerInv, Own, GoodOpen
<1>9. Unread(g)
  BY <1>2, <1>5, <1>7 DEF HandlerInv, Unread
<1>10. \A k \in Conn, s \in Req : Has(g, k, s) = Has(h, k, s)
  BY <1>2 DEF Has
<1>11. Delivered(g)
  BY <1>5, <1>10 DEF HandlerInv, Delivered
<1>12. \A c \in Client, s \in Req : /\ Waits(h, c, s) => Waits(g, c, s)
                                    /\ Waits(g, c, s) => Waits(h, c, s) \/ s = r
  BY <1>2, <1>5 DEF Waits
<1>13. BlockedOK(g)
  <2> SUFFICES ASSUME NEW c \in Client, g.cc[c].open, g.cc[c].good, g.cc[c].block
               PROVE  \E s \in Req : Waits(g, c, s) /\ g.req[s].cmd \in Blocking
    BY DEF BlockedOK
  <2>1. PICK s \in Req : Waits(h, c, s) /\ h.req[s].cmd \in Blocking
    BY <1>2 DEF HandlerInv, BlockedOK
  <2> QED BY <1>5, <1>12, <2>1
<1>14. Kept(g, {r}, Conn)
  BY <1>2, <1>10, <1>12 DEF HandlerInv, Kept
<1>15. HandlerInv(g, {r}, Conn)
  BY <1>6, <1>8, <1>9, <1>11, <1>13, <1>14 DEF HandlerInv
<1> QED BY <1>2, <1>15 DEF g

\* A request that waits on a connection may block its client, and be counted.
LEMMA PostHandleKeeps ==
    ASSUME NEW h, HandlerInv(h, {}, Conn), NEW r \in Req, NEW k \in Conn,
           Contains(h.cc[r[1]].requests, r), h.req[r].delivered,
           h.req[r].cmd \in Blocking => h.req[r].res = "none"
    PROVE  /\ HandlerInv(PostHandle(h, r, k), {}, Conn)
           /\ SameClients(h, PostHandle(h, r, k))
           /\ PostHandle(h, r, k).req = h.req
<1> DEFINE c == r[1]
           cmd == h.req[r].cmd
           blocked == IF cmd \in Blocking THEN [h EXCEPT !.cc[c].block = TRUE] ELSE h
           counted == CASE cmd = "watch" -> [blocked EXCEPT !.cc[c].pendWatch = @ + 1]
                        [] cmd = "multi" -> [blocked EXCEPT !.cc[c].pendMulti = @ + 1]
                        [] cmd = "subscribe" -> [blocked EXCEPT !.cc[c].pendSub = @ + 1]
                        [] OTHER -> blocked
           g == IF cmd \in RequirePrivate THEN Attach(counted, c, k) ELSE counted
<1>1. PostHandle(h, r, k) = g
  BY DEF PostHandle
<1>2. State(h) /\ c \in Client
  BY DEF HandlerInv, Req
<1>3. HandlerInv(blocked, {}, Conn) /\ SameClients(h, blocked) /\ blocked.req = h.req
  <2>1. CASE cmd \notin Blocking
    <3>1. blocked = h
      BY <2>1
    <3>2. SameClients(h, h)
      BY <1>2, FrameSame DEF Frame
    <3> QED BY <3>1, <3>2
  <2>2. CASE cmd \in Blocking
    <3> DEFINE x == [h.cc[c] EXCEPT !.block = TRUE]
    <3>1. h.cc[c] \in AcceptConn
      BY <1>2 DEF State
    <3>2. /\ DOMAIN blocked = Parts /\ blocked.sc = h.sc /\ blocked.idle = h.idle
          /\ blocked.postS = h.postS /\ blocked.postA = h.postA
          /\ blocked.req = h.req
          /\ blocked.cc = [h.cc EXCEPT ![c] = x]
      BY <1>2, <2>2, <3>1 DEF State, Parts
    <3>3. SameClient(h.cc[c], x)
      BY <3>1 DEF SameClient, AcceptConn
    <3> HIDE DEF blocked
    <3>4. /\ blocked.cc \in [Client -> AcceptConn]
          /\ \A d \in Client : SameClient(h.cc[d], blocked.cc[d])
          /\ \A d \in Client : d # c => blocked.cc[d] = h.cc[d]
      <4> HIDE DEF x
      <4>1. x \in AcceptConn
        BY <3>3 DEF SameClient
      <4>2. \A d \in Client : SameClient(h.cc[d], h.cc[d])
        BY <1>2 DEF State, SameClient
      <4> QED BY <1>2, <3>2, <3>3, <4>1, <4>2 DEF State
    <3> HIDE DEF x
    <3>5. State(blocked) /\ SameClients(h, blocked)
      BY <1>2, <3>2, <3>4 DEF State, SameClients
    <3>6. \A d \in Client : /\ blocked.cc[d].open = h.cc[d].open
                            /\ blocked.cc[d].good = h.cc[d].good
                            /\ blocked.cc[d].requests = h.cc[d].requests
                            /\ blocked.cc[d].parsed = h.cc[d].parsed
                            /\ blocked.cc[d].messages = h.cc[d].messages
      BY <3>4 DEF SameClient
    <3>7. \A s \in Req : s[1] \in Client
      BY DEF Req
    <3>8. Own(blocked) /\ Unread(blocked)
      <4>1. Own(h) /\ Unread(h) /\ blocked.req = h.req
        BY <3>2 DEF HandlerInv
      <4> QED BY ONLY <3>6, <4>1, OwnSame, UnreadSame
    <3>9. \A j \in Conn, s \in Req : Has(blocked, j, s) = Has(h, j, s)
      BY <3>2 DEF Has
    <3>10. \A d \in Client, s \in Req : Waits(blocked, d, s) = Waits(h, d, s)
      BY <3>2, <3>6 DEF Waits
    <3>11. Delivered(blocked) /\ GoodOpen(blocked)
      BY <3>2, <3>9 DEF HandlerInv, Delivered, GoodOpen
    <3>12. Kept(blocked, {}, Conn)
      BY <3>2, <3>9, <3>10 DEF HandlerInv, Kept
    <3>13. BlockedOK(blocked)
      <4> SUFFICES ASSUME NEW d \in Client, blocked.cc[d].open, blocked.cc[d].good,
                          blocked.cc[d].block
                   PROVE  \E s \in Req : Waits(blocked, d, s) /\ blocked.req[s].cmd \in Blocking
        BY DEF BlockedOK
      <4>1. CASE d = c
        BY <2>2, <3>2, <3>6, <4>1 DEF Waits
      <4>2. CASE d # c
        BY <3>2, <3>4, <3>10, <4>2 DEF HandlerInv, BlockedOK
      <4> QED BY <4>1, <4>2
    <3> QED BY <3>2, <3>5, <3>8, <3>11, <3>12, <3>13 DEF HandlerInv
  <2> QED BY <2>1, <2>2
<1> HIDE DEF blocked
<1>4. Frame(blocked, counted)
  <2> DEFINE x == blocked.cc[c]
             y == CASE cmd = "watch" -> [x EXCEPT !.pendWatch = @ + 1]
                    [] cmd = "multi" -> [x EXCEPT !.pendMulti = @ + 1]
                    [] cmd = "subscribe" -> [x EXCEPT !.pendSub = @ + 1]
                    [] OTHER -> x
  <2>1. State(blocked) /\ x \in AcceptConn
    BY <1>2, <1>3 DEF HandlerInv, State
  <2>2. SameClient(x, y) /\ y.block = x.block
    <3>1. x.pendWatch \in Nat /\ x.pendMulti \in Nat /\ x.pendSub \in Nat
      BY <2>1 DEF AcceptConn
    <3>2. x.pendWatch + 1 \in Nat /\ x.pendMulti + 1 \in Nat /\ x.pendSub + 1 \in Nat
      BY <3>1
    <3>3. /\ Recounted(x, x) /\ Recounted(x, [x EXCEPT !.pendWatch = @ + 1])
          /\ Recounted(x, [x EXCEPT !.pendMulti = @ + 1])
          /\ Recounted(x, [x EXCEPT !.pendSub = @ + 1])
      BY <2>1, <3>2 DEF Recounted, SameClient, AcceptConn
    <3> HIDE DEF x
    <3>4. y \in {x, [x EXCEPT !.pendWatch = @ + 1], [x EXCEPT !.pendMulti = @ + 1],
                 [x EXCEPT !.pendSub = @ + 1]}
      OBVIOUS
    <3> HIDE DEF y
    <3> QED BY <3>3, <3>4 DEF Recounted
  <2>3. /\ DOMAIN counted = Parts /\ counted.sc = blocked.sc /\ counted.idle = blocked.idle
        /\ counted.postS = blocked.postS /\ counted.postA = blocked.postA
        /\ counted.req = blocked.req
        /\ counted.cc = [blocked.cc EXCEPT ![c] = y]
    BY <2>1 DEF State, Parts
  <2> HIDE DEF counted, y
  <2> QED BY <1>2, <2>1, <2>2, <2>3, FrameClient DEF State
<1> HIDE DEF counted
<1>5. Frame(counted, g)
  <2>1. State(counted)
    BY <1>4 DEF Frame
  <2>2. Frame(counted, counted) /\ Frame(counted, Attach(counted, c, k))
    BY <1>2, <2>1, FrameSame, AttachFrame
  <2> QED BY <2>2
<1> HIDE DEF g
<1>6. Frame(blocked, g)
  BY <1>4, <1>5, FrameTrans
<1>7. HandlerInv(g, {}, Conn)
  BY <1>3, <1>6, FrameKeeps
<1>8. SameClients(h, g) /\ g.req = h.req
  BY <1>3, <1>6 DEF Frame, SameClients, SameClient
<1> QED BY <1>1, <1>7, <1>8

\* No other request has changed, nor what clients have.
Passed(h, g, r) ==
    /\ SameClients(h, g)
    /\ g.req[r].cmd = h.req[r].cmd
    /\ \A s \in Req : s # r => g.req[s] = h.req[s]

\* What becomes of a request that needs a connection.
LEMMA ServedKeeps ==
    ASSUME NEW h, HandlerInv(h, {}, Conn), NEW r \in Req, New(h, r),
           NEW e, Gives(Delivering(h, r), e)
    PROVE  LET g == IF e.conn = None \/ ~e.state.sc[e.conn].good
                    THEN HandleResponse(e.state, None, r, "err")
                    ELSE PostHandle(PostS([e.state EXCEPT !.sc[e.conn].send = Append(@, r)],
                                          e.conn, "Write"), r, e.conn)
           IN HandlerInv(g, {}, Conn) /\ Passed(h, g, r)
<1> DEFINE d == Delivering(h, r)
           s == e.state
           k == e.conn
           refused == HandleResponse(s, None, r, "err")
           p == [s EXCEPT !.sc[k].send = Append(@, r)]
           w == PostS(p, k, "Write")
           placed == PostHandle(w, r, k)
<1>1. State(h) /\ r[1] \in Client /\ h.req[r] \in Request
  BY DEF HandlerInv, State, Req
<1>2. /\ HandlerInv(d, {r}, Conn) /\ d.cc = h.cc /\ d.postA = h.postA
      /\ d.req = [h.req EXCEPT ![r].delivered = TRUE]
  BY DeliveringKeeps
<1> HIDE DEF d
<1>3. Gets(d, s) /\ k \in Conn \cup {None}
  BY DEF Gives, d
<1>4. HandlerInv(s, {r}, Conn)
  BY <1>2, <1>3, GetsKeep
<1> HIDE DEF s, k
<1>5. SameClients(h, s) /\ s.req = [h.req EXCEPT ![r].delivered = TRUE]
  BY <1>2, <1>3 DEF Gets, SameClients
<1>6. /\ s.req[r].delivered /\ s.req[r].cmd = h.req[r].cmd /\ s.req[r].res = h.req[r].res
      /\ \A t \in Req : t # r => s.req[t] = h.req[t]
      /\ Contains(s.cc[r[1]].requests, r)
      /\ State(s)
  <2>1. /\ s.req[r].delivered /\ s.req[r].cmd = h.req[r].cmd /\ s.req[r].res = h.req[r].res
        /\ \A t \in Req : t # r => s.req[t] = h.req[t]
    BY <1>1, <1>5 DEF State, Request
  <2>2. Contains(s.cc[r[1]].requests, r)
    BY <1>1, <1>5 DEF New, SameClients, SameClient
  <2> QED BY <1>4, <2>1, <2>2 DEF HandlerInv
<1>7. HandlerInv(refused, {}, Conn) /\ Passed(h, refused, r)
  <2>1. Answers(s, refused, r, "err")
    BY <1>6, HandleResponseAnswers DEF Response
  <2> HIDE DEF refused
  <2>2. r[2] \notin s.cc[r[1]].parsed + 1..MaxReq
    BY <1>4, <1>6 DEF HandlerInv, Unread
  <2>3. HandlerInv(refused, {r} \ {r}, Conn)
    BY <1>4, <1>6, <2>1, <2>2, AnswersKeep DEF Response
  <2>4. {r} \ {r} = {}
    OBVIOUS
  <2>5. \A t \in Req : t # r => refused.req[t] = s.req[t]
    BY <1>6, <2>1 DEF Answers, State
  <2>6. refused.req[r].cmd = s.req[r].cmd
    BY <1>6, <2>1 DEF Answers, State, Request
  <2>7. SameClients(h, refused)
    BY <1>5, <2>1 DEF Answers, SameClients, SameClient
  <2> QED BY <1>6, <2>3, <2>4, <2>5, <2>6, <2>7 DEF Passed
<1>8. ASSUME k \in Conn, s.sc[k].good
      PROVE  HandlerInv(placed, {}, Conn) /\ Passed(h, placed, r)
  <2>1. Open(s.sc[k]) /\ s.sc[k] \in ConnectConn
    BY <1>4, <1>8 DEF HandlerInv, GoodOpen, State
  <2>2. /\ DOMAIN p = Parts /\ p.cc = s.cc /\ p.req = s.req /\ p.idle = s.idle
        /\ p.postS = s.postS /\ p.postA = s.postA
        /\ p.sc = [s.sc EXCEPT ![k].send = Append(@, r)]
    BY <1>6 DEF State, Parts
  <2> HIDE DEF p
  <2>3. HandlerInv(p, {r} \ {r}, Conn)
    BY <1>4, <1>6, <1>8, <2>1, <2>2, PlaceKeeps
  <2>4. {r} \ {r} = {}
    OBVIOUS
  <2>5. Frame(p, w)
    BY <1>8, <2>3, PostSFrame DEF HandlerInv, Event
  <2> HIDE DEF w
  <2>6. HandlerInv(w, {}, Conn) /\ w.req = s.req
    BY <2>2, <2>3, <2>4, <2>5, FrameKeeps DEF Frame
  <2>7. SameClients(s, w)
    BY <2>2, <2>5 DEF Frame, SameClients
  <2>8. Contains(w.cc[r[1]].requests, r)
    BY <1>1, <1>6, <2>7 DEF SameClients, SameClient
  <2>9. w.req[r].cmd \in Blocking => w.req[r].res = "none"
    BY <1>6, <2>6 DEF HandlerInv, Delivered, New
  <2>10. HandlerInv(placed, {}, Conn) /\ SameClients(w, placed) /\ placed.req = w.req
    BY <1>6, <1>8, <2>6, <2>8, <2>9, PostHandleKeeps
  <2> HIDE DEF placed
  <2>11. SameClients(h, placed)
    BY <1>5, <2>7, <2>10 DEF SameClients, SameClient
  <2> QED BY <1>6, <2>6, <2>10, <2>11 DEF Passed
<1> HIDE DEF refused, placed
<1>9. LET g == IF k = None \/ ~s.sc[k].good THEN refused ELSE placed
      IN HandlerInv(g, {}, Conn) /\ Passed(h, g, r)
  BY <1>3, <1>7, <1>8
<1> QED BY <1>9 DEF s, k, refused, placed, w, p

\* Whatever becomes of a request that is delivered.
LEMMA HandleRequestKeeps ==
    ASSUME NEW h, HandlerInv(h, {}, Conn), NEW r \in Req, New(h, r)
    PROVE  \A g \in HandleRequest(h, r) : HandlerInv(g, {}, Conn) /\ Passed(h, g, r)
<1> DEFINE c == r[1]
           cmd == h.req[r].cmd
           x == h.cc[c]
           d == Delivering(h, r)
           refused == HandleResponse(d, None, r, "err")
           ended == PostA(refused, c, "Error")
           served(e) == IF e.conn = None \/ ~e.state.sc[e.conn].good
                        THEN HandleResponse(e.state, None, r, "err")
                        ELSE PostHandle(PostS([e.state EXCEPT !.sc[e.conn].send = Append(@, r)],
                                              e.conn, "Write"), r, e.conn)
           OK(g) == HandlerInv(g, {}, Conn) /\ Passed(h, g, r)
<1>1. HandleRequest(h, r) =
        IF x.block THEN {h}
        ELSE {refused : i \in Deniable \cap {cmd}}
             \cup IF InTransaction(x) /\ cmd = "subscribe" THEN {ended}
                  ELSE {served(e) : e \in GetConnection(d, c, cmd)}
  BY DEF HandleRequest, Delivering
<1>2. State(h) /\ c \in Client
  BY DEF HandlerInv, Req
<1>3. OK(h)
  BY <1>2, FrameSame DEF Frame, Passed
<1>4. /\ HandlerInv(d, {r}, Conn) /\ d.cc = h.cc
      /\ d.req = [h.req EXCEPT ![r].delivered = TRUE]
  BY DeliveringKeeps
<1>5. \A e : Gives(d, e) => OK(served(e))
  BY ServedKeeps
<1> HIDE DEF d
<1>6. OK(refused)
  <2>1. Gets(d, d)
    BY <1>4, FrameSame, FrameGets DEF HandlerInv
  <2>2. Gives(d, Got(d, None))
    BY <2>1, GotGives
  <2>3. OK(served(Got(d, None)))
    BY <1>5, <2>2
  <2>4. Got(d, None).conn = None /\ Got(d, None).state = d
    BY DEF Got
  <2> QED BY <2>3, <2>4
<1> HIDE DEF refused
<1>7. OK(ended)
  <2>1. Frame(refused, ended)
    BY <1>2, <1>6, PostAFrame DEF HandlerInv, Event
  <2> HIDE DEF ended
  <2>2. HandlerInv(ended, {}, Conn)
    BY <1>6, <2>1, FrameKeeps
  <2>3. Passed(h, ended, r)
    BY <1>6, <2>1 DEF Frame, Passed, SameClients, SameClient
  <2> QED BY <2>2, <2>3
<1> HIDE DEF ended
<1>8. \A e \in GetConnection(d, c, cmd) : OK(served(e))
  <2>1. \A e \in GetConnection(d, c, cmd) : Gives(d, e)
    BY <1>2, <1>4, GetConnectionGives DEF HandlerInv
  <2> QED BY <1>5, <2>1
<1> HIDE DEF served, OK
<1>9. \A g \in HandleRequest(h, r) : OK(g)
  BY <1>1, <1>3, <1>6, <1>7, <1>8
<1> QED BY <1>9 DEF OK

-----------------------------------------------------------------------------
(* Delivering the requests that were held back.                            *)

DeliverStep(hs, r) == UNION {HandleRequest(g, r) : g \in hs}

\* After n requests were delivered the others are not yet; b is the state before.
DeliveredSoFar(b, q, n, hs) ==
    \A g \in hs :
       /\ HandlerInv(g, {}, Conn) /\ SameClients(b, g)
       /\ \A i \in n + 1..Len(q) : g.req[q[i]] = b.req[q[i]]
       /\ \A s \in Req : b.req[s].res # "none" => \/ g.req[s].res # "none"
                                                  \/ \E i \in 1..n : q[i] = s

FoldStep(x, y, hs, r) == DeliverStep(hs, r)

FoldSoFar(x, y, b, q, n, hs) == DeliveredSoFar(x, q, n, hs)

DeliverAll == INSTANCE LeftFold WITH Op <- FoldStep, P <- FoldSoFar

\* Requests of one client are delivered in turn.
LEMMA DeliverKeeps ==
    ASSUME NEW h, HandlerInv(h, {}, Conn), NEW q \in Seq(Req),
           \A i \in 1..Len(q) : New(h, q[i]),
           \A i, j \in 1..Len(q) : q[i] = q[j] => i = j
    PROVE  DeliveredSoFar(h, q, Len(q),
              FoldLeft(LAMBDA hs, r : UNION {HandleRequest(g, r) : g \in hs}, {h}, q))
<1>1. DeliveredSoFar(h, q, 0, {h})
  BY FrameSame DEF DeliveredSoFar, HandlerInv, Frame
<1>2. ASSUME NEW n \in 1..Len(q), NEW hs, DeliveredSoFar(h, q, n - 1, hs)
      PROVE  DeliveredSoFar(h, q, n, DeliverStep(hs, q[n]))
  <2> DEFINE r == q[n]
  <2>1. r \in Req
    OBVIOUS
  <2>2. SUFFICES ASSUME NEW g \in hs, NEW e \in HandleRequest(g, r)
                 PROVE  /\ HandlerInv(e, {}, Conn) /\ SameClients(h, e)
                        /\ \A i \in n + 1..Len(q) : e.req[q[i]] = h.req[q[i]]
                        /\ \A s \in Req : h.req[s].res # "none" =>
                              \/ e.req[s].res # "none"
                              \/ \E i \in 1..n : q[i] = s
    BY DEF DeliveredSoFar, DeliverStep
  <2>3. /\ HandlerInv(g, {}, Conn) /\ SameClients(h, g)
        /\ \A i \in n..Len(q) : g.req[q[i]] = h.req[q[i]]
        /\ \A s \in Req : h.req[s].res # "none" => \/ g.req[s].res # "none"
                                                   \/ \E i \in 1..n - 1 : q[i] = s
    <3>1. (n - 1) + 1 = n
      OBVIOUS
    <3> QED BY <1>2, <2>2, <3>1 DEF DeliveredSoFar
  <2>4. New(g, r)
    <3>1. r[1] \in Client /\ n \in n..Len(q)
      BY <2>1 DEF Req
    <3> QED BY <2>3, <3>1 DEF New, SameClients, SameClient
  <2>5. HandlerInv(e, {}, Conn) /\ Passed(g, e, r)
    BY <2>1, <2>2, <2>3, <2>4, HandleRequestKeeps
  <2>6. SameClients(h, e)
    BY <2>3, <2>5 DEF Passed, SameClients, SameClient
  <2>7. \A i \in n + 1..Len(q) : e.req[q[i]] = h.req[q[i]]
    <3> TAKE i \in n + 1..Len(q)
    <3>1. i \in n..Len(q) /\ i \in 1..Len(q) /\ i # n
      OBVIOUS
    <3>2. q[i] \in Req /\ q[i] # r
      BY <3>1
    <3> QED BY <2>3, <2>5, <3>1, <3>2 DEF Passed
  <2>8. ASSUME NEW s \in Req, h.req[s].res # "none"
        PROVE  e.req[s].res # "none" \/ \E i \in 1..n : q[i] = s
    <3>1. CASE s = r
      BY <3>1
    <3>2. CASE s # r
      BY <2>3, <2>5, <2>8, <3>2 DEF Passed
    <3> QED BY <3>1, <3>2
  <2> QED BY <2>5, <2>6, <2>7, <2>8
<1> DEFINE D == DeliverAll!Fold(h, 0, {h}, q)
<1>3. FoldSoFar(h, 0, {h}, q, Len(q), D)
  <2>1. FoldSoFar(h, 0, {h}, q, 0, {h})
    BY <1>1 DEF FoldSoFar
  <2>2. \A n \in 1..Len(q) : \A hs :
           FoldSoFar(h, 0, {h}, q, n - 1, hs)
             => FoldSoFar(h, 0, {h}, q, n, FoldStep(h, 0, hs, q[n]))
    BY <1>2 DEF FoldSoFar, FoldStep
  <2> QED BY ONLY <2>1, <2>2, q \in Seq(Req), DeliverAll!FoldKeeps
<1>4. D = FoldLeft(LAMBDA hs, r : UNION {HandleRequest(g, r) : g \in hs}, {h}, q)
  BY DEF DeliverAll!Fold, DeliverAll!FoldLeft, DeliverAll!MapThenFoldSet, DeliverAll!Max,
         FoldLeft, MapThenFoldSet, Max, FoldStep, DeliverStep
<1> QED BY <1>3, <1>4 DEF FoldSoFar

\* The types that the requests of a client are reckoned with.
LEMMA RequestsAre ==
    ASSUME NEW x \in AcceptConn
    PROVE  /\ x.requests \in Seq(Req) /\ Len(x.requests) \in Nat
           /\ x.parsed \in 0..MaxReq /\ x.messages \in Nat /\ MaxReq \in Nat
BY SessionAssumption DEF AcceptConn

\* The oldest requests that have an answer.
LEMMA ReadyIs ==
    ASSUME NEW h, State(h), NEW c \in Client
    PROVE  /\ Ready(h, c) \in 0..Len(h.cc[c].requests)
           /\ \A i \in 1..Ready(h, c) : h.req[h.cc[c].requests[i]].res # "none"
<1> DEFINE q == h.cc[c].requests
           A == {i \in 1..Len(q) : h.req[q[i]].res # "none"}
<1>1. q \in Seq(Req) /\ Len(q) \in Nat
  BY DEF State, AcceptConn
<1> HIDE DEF A, q
<1>2. PICK n \in 0..Len(q) : /\ \A i \in 0 + 1..n : i \in A
                             /\ n < Len(q) => n + 1 \notin A
  <2>1. 0 \in Nat /\ 0 <= Len(q)
    BY <1>1
  <2> QED BY ONLY <1>1, <2>1, DeliverAll!FirstFailing
<1>3. /\ \A i \in 1..n : h.req[q[i]].res # "none"
      /\ n < Len(q) => h.req[q[n + 1]].res = "none"
  BY <1>1, <1>2 DEF A
<1> QED BY <1>3 DEF Ready, q

\* The requests of p were held back: none is among the oldest, which have an answer.
HeldBack(h, c, p) ==
    /\ p \in Seq(Req)
    /\ \A i \in 1..Len(p) : /\ New(h, p[i]) /\ p[i][1] = c
                            /\ \A j \in 1..Ready(h, c) : p[i] # h.cc[c].requests[j]
    /\ \A i, j \in 1..Len(p) : p[i] = p[j] => i = j
    /\ h.cc[c].requests # <<>>

DeliverEach(h, p) == FoldLeft(LAMBDA es, r : UNION {HandleRequest(g, r) : g \in es}, {h}, p)

\* What fill() delivers was held back.
LEMMA HeldBackIs ==
    ASSUME NEW h, HandlerInv(h, {}, Conn), NEW c \in Client
    PROVE  \/ DeliverHeld(h, c) = {h}
           \/ \E p : HeldBack(h, c, p) /\ DeliverHeld(h, c) = DeliverEach(h, p)
<1> DEFINE q == h.cc[c].requests
           n == Ready(h, c)
           m == CHOOSE m \in n..Len(q) :
                  /\ \A i \in n + 1..m : ~h.req[q[i]].delivered
                  /\ m < Len(q) => h.req[q[m + 1]].delivered
           p == SubSeq(q, n + 1, m)
<1>1. DeliverHeld(h, c) = IF n = Len(q) \/ h.cc[c].block THEN {h} ELSE DeliverEach(h, p)
  BY DEF DeliverHeld, DeliverEach
<1>2. State(h) /\ q \in Seq(Req) /\ Len(q) \in Nat
  <2>1. State(h) /\ h.cc[c] \in AcceptConn
    BY ONLY HandlerInv(h, {}, Conn), c \in Client DEF HandlerInv, State
  <2> QED BY ONLY <2>1, RequestsAre
<1>3. n \in 0..Len(q) /\ \A i \in 1..n : h.req[q[i]].res # "none"
  BY ONLY <1>2, c \in Client, ReadyIs
<1> HIDE DEF n
<1>4. m \in n..Len(q) /\ \A i \in n + 1..m : ~h.req[q[i]].delivered
  <2> DEFINE A == {i \in 1..Len(q) : ~h.req[q[i]].delivered}
  <2> HIDE DEF A
  <2>1. PICK l \in n..Len(q) : /\ \A i \in n + 1..l : i \in A
                               /\ l < Len(q) => l + 1 \notin A
    <3>1. n \in Nat /\ n <= Len(q)
      BY <1>2, <1>3
    <3> QED BY ONLY <1>2, <3>1, DeliverAll!FirstFailing
  <2>2. /\ \A i \in n + 1..l : ~h.req[q[i]].delivered
        /\ l < Len(q) => h.req[q[l + 1]].delivered
    <3>1. n \in Nat /\ n <= Len(q) /\ Len(q) \in Nat /\ l \in Nat /\ l <= Len(q)
      BY ONLY <1>2, <1>3, <2>1
    <3>2. /\ \A i \in n + 1..l : i \in A
          /\ l < Len(q) => l + 1 \notin A
      BY ONLY <2>1
    <3>3. \A i \in A : ~h.req[q[i]].delivered
      BY ONLY DEF A
    <3>4. l < Len(q) => l + 1 \in 1..Len(q)
      BY ONLY <3>1
    <3>5. \A i \in 1..Len(q) : i \notin A => h.req[q[i]].delivered
      BY ONLY DEF A
    <3> QED BY ONLY <3>2, <3>3, <3>4, <3>5, Zenon
  <2> QED BY <2>2
<1> HIDE DEF m
<1>5. /\ p \in Seq(Req) /\ Len(p) = m - n
      /\ \A i \in 1..m - n : p[i] = q[n + i] /\ n + i \in 1..Len(q) /\ n + i \in n + 1..m
  <2>1. n \in Nat /\ m \in Nat /\ n <= m /\ m <= Len(q)
    BY <1>2, <1>3, <1>4
  <2>2. m - (n + 1) + 1 = m - n /\ m - n \in Nat
    BY <2>1
  <2>3. \A i \in 1..m - n : (n + 1) + i - 1 = n + i
    BY <2>1
  <2>4. \A i \in 1..m - n : p[i] = q[n + i]
    BY <1>2, <2>1, <2>2, <2>3
  <2>5. p \in Seq(Req) /\ Len(p) = m - n
    BY <1>2, <2>1, <2>2
  <2> QED BY <2>1, <2>4, <2>5
<1> HIDE DEF p
<1>6. \A i \in 1..Len(q) : q[i] \in Req /\ q[i][1] = c /\ Contains(q, q[i])
  BY <1>2 DEF HandlerInv, Own, Contains
<1>7. \A i, j \in 1..Len(q) : q[i] = q[j] => i = j
  BY <1>2 DEF HandlerInv, Own
<1>8. \A i \in 1..Len(p) : New(h, p[i])
  BY <1>4, <1>5, <1>6 DEF New
<1>9. \A i, j \in 1..Len(p) : p[i] = p[j] => i = j
  <2> TAKE i, j \in 1..Len(p)
  <2>1. p[i] = p[j] => n + i = n + j
    BY <1>5, <1>7
  <2>2. n \in Nat /\ i \in Int /\ j \in Int
    BY <1>3
  <2> QED BY <2>1, <2>2
<1>10. ASSUME NEW i \in 1..Len(p), NEW j \in 1..n PROVE p[i] # q[j]
  <2>1. n + i # j /\ j \in 1..Len(q)
    BY <1>3, <1>5
  <2> QED BY <1>5, <1>7, <2>1
<1>11. CASE n # Len(q)
  <2>1. q # <<>>
    BY <1>2, <1>3, <1>11
  <2>2. \A i \in 1..Len(p) : p[i][1] = c
    BY <1>5, <1>6
  <2>3. HeldBack(h, c, p)
    BY <1>5, <1>8, <1>9, <1>10, <2>1, <2>2 DEF HeldBack, n
  <2> QED BY <1>1, <2>3
<1> QED BY <1>1, <1>11

\* fill() keeps the invariant, what clients have and that they are answered.
LEMMA DeliverHeldKeeps ==
    ASSUME NEW h, HandlerInv(h, {}, Conn), NEW c \in Client
    PROVE  \A g \in DeliverHeld(h, c) :
              /\ HandlerInv(g, {}, Conn) /\ SameClients(h, g)
              /\ \A i \in 1..Ready(h, c) : g.req[h.cc[c].requests[i]].res # "none"
<1> DEFINE q == h.cc[c].requests
           n == Ready(h, c)
<1>1. State(h) /\ q \in Seq(Req)
  BY RequestsAre DEF HandlerInv, State
<1>2. n \in 0..Len(q) /\ \A i \in 1..n : h.req[q[i]].res # "none"
  BY <1>1, ReadyIs
<1>3. CASE DeliverHeld(h, c) = {h}
  BY <1>1, <1>2, <1>3, FrameSame DEF Frame
<1>4. ASSUME NEW p, HeldBack(h, c, p), DeliverHeld(h, c) = DeliverEach(h, p)
      PROVE  \A g \in DeliverEach(h, p) :
                /\ HandlerInv(g, {}, Conn) /\ SameClients(h, g)
                /\ \A i \in 1..n : g.req[q[i]].res # "none"
  <2>1. DeliveredSoFar(h, p, Len(p), DeliverEach(h, p))
    BY <1>4, DeliverKeeps DEF HeldBack, DeliverEach
  <2>2. ASSUME NEW g \in DeliverEach(h, p), NEW i \in 1..n PROVE g.req[q[i]].res # "none"
    <3>1. q[i] \in Req /\ h.req[q[i]].res # "none"
      BY <1>1, <1>2
    <3>2. \A j \in 1..Len(p) : p[j] # q[i]
      BY <1>4 DEF HeldBack
    <3> QED BY <2>1, <2>2, <3>1, <3>2 DEF DeliveredSoFar
  <2> QED BY <2>1, <2>2 DEF DeliveredSoFar
<1> QED BY <1>3, <1>4, HeldBackIs

-----------------------------------------------------------------------------
(* Clients.                                                                *)

\* The first m elements of a sequence are dropped.
LEMMA DropIs ==
    ASSUME NEW S, NEW q \in Seq(S), NEW m \in 0..Len(q), NEW p, p = SubSeq(q, m + 1, Len(q))
    PROVE  /\ p \in Seq(S) /\ DOMAIN q = 1..Len(q)
           /\ \A i \in DOMAIN p : m + i \in DOMAIN q /\ p[i] = q[m + i] /\ i \in Int
           /\ \A i \in DOMAIN q : i <= m \/ (i - m \in DOMAIN p /\ p[i - m] = q[i])
<1>1. /\ DOMAIN q = 1..Len(q) /\ Len(q) \in Nat /\ m \in Nat /\ m <= Len(q)
      /\ m + 1 \in Nat /\ Len(q) - (m + 1) + 1 = Len(q) - m
  OBVIOUS
<1>2. p \in Seq(S) /\ DOMAIN p = 1..Len(q) - m /\ \A i \in 1..Len(q) - m : p[i] = q[m + i]
  BY <1>1
<1>3. \A i \in 1..Len(q) - m : m + i \in 1..Len(q) /\ i \in Int
  BY <1>1
<1>4. \A i \in 1..Len(q) : i <= m \/ (i - m \in 1..Len(q) - m /\ m + (i - m) = i)
  BY <1>1
<1>5. \A i \in DOMAIN q : i <= m \/ (i - m \in DOMAIN p /\ p[i - m] = q[i])
  BY ONLY <1>1, <1>2, <1>4
<1> QED BY <1>1, <1>2, <1>3, <1>5

\* A client has let go of requests that it does not wait for, or is not served
\* any more.
LEMMA DropKeeps ==
    ASSUME NEW h, HandlerInv(h, {}, Conn), NEW c \in Client, NEW x \in AcceptConn,
           x.open => h.cc[c].open, x.good => h.cc[c].good, x.block = h.cc[c].block,
           x.parsed = h.cc[c].parsed, x.messages = h.cc[c].messages,
           NEW m \in 0..Len(h.cc[c].requests),
           \/ m = 0 /\ x.requests = h.cc[c].requests
           \/ x.requests = SubSeq(h.cc[c].requests, m + 1, Len(h.cc[c].requests)),
           x.open /\ x.good => \A i \in 1..m : h.req[h.cc[c].requests[i]].res # "none",
           NEW g, DOMAIN g = Parts, g.cc = [h.cc EXCEPT ![c] = x],
           g.sc = h.sc, g.idle = h.idle, g.req = h.req, g.postA \in Seq(Client),
           g.postS = h.postS
    PROVE  HandlerInv(g, {}, Conn)
<1> DEFINE q == h.cc[c].requests
           p == x.requests
<1>1. State(h) /\ h.cc[c] \in AcceptConn
  BY DEF HandlerInv, State
<1>2. q \in Seq(Req) /\ Len(q) \in Nat
  BY <1>1, RequestsAre
<1> DEFINE OwnRequest(d, r) == r[1] = d /\ r[2] \in (1..h.cc[d].parsed) \cup
                                                 (MaxReq + 1..MaxReq + h.cc[d].messages)
<1>5. \A d \in Client :
        /\ \A i \in DOMAIN h.cc[d].requests : OwnRequest(d, h.cc[d].requests[i])
        /\ \A i, j \in DOMAIN h.cc[d].requests :
              h.cc[d].requests[i] = h.cc[d].requests[j] => i = j
  <2>1. Own(h)
    BY DEF HandlerInv
  <2> QED BY ONLY <2>1 DEF Own
<1>3. /\ p \in Seq(Req) /\ DOMAIN q = 1..Len(q)
      /\ \A i \in DOMAIN p : m + i \in DOMAIN q /\ p[i] = q[m + i] /\ i \in Int
      /\ \A i \in DOMAIN q : i <= m \/ (i - m \in DOMAIN p /\ p[i - m] = q[i])
  <2>1. m \in 0..Len(q) /\ ((m = 0 /\ p = q) \/ p = SubSeq(q, m + 1, Len(q)))
    OBVIOUS
  <2> HIDE DEF p, q
  <2>2. CASE p = SubSeq(q, m + 1, Len(q))
    BY ONLY <1>2, <2>1, <2>2, DropIs
  <2>3. CASE m = 0 /\ p = q
    <3>1. DOMAIN q = 1..Len(q)
      BY <1>2
    <3>2. \A i \in 1..Len(q) : 0 + i = i /\ i - 0 = i /\ i \in Int
      BY <1>2
    <3> QED BY <1>2, <2>3, <3>1, <3>2
  <2> QED BY <2>1, <2>2, <2>3
<1>4. /\ \A i \in DOMAIN p : m + i \in DOMAIN q /\ p[i] = q[m + i] /\ i \in Int
      /\ \A i \in DOMAIN q : i <= m \/ (i - m \in DOMAIN p /\ p[i - m] = q[i])
  BY <1>3
<1> HIDE DEF p
<1>7. \A d \in Client : g.cc[d] = IF d = c THEN x ELSE h.cc[d]
  BY <1>1 DEF State
<1>8. State(g)
  BY <1>1 DEF State
<1>9. \A d \in Client : /\ g.cc[d].parsed = h.cc[d].parsed
                        /\ g.cc[d].messages = h.cc[d].messages
                        /\ g.cc[d].good => h.cc[d].good
                        /\ g.cc[d].block = h.cc[d].block
                        /\ g.cc[d].open => h.cc[d].open
                        /\ d # c => g.cc[d].requests = h.cc[d].requests
  BY <1>7
<1>10. g.cc[c].requests = p
  BY <1>7 DEF p
<1>11. Own(g)
  <2>1. ASSUME NEW d \in Client
        PROVE  /\ \A i \in DOMAIN g.cc[d].requests : OwnRequest(d, g.cc[d].requests[i])
               /\ \A i, j \in DOMAIN g.cc[d].requests :
                     g.cc[d].requests[i] = g.cc[d].requests[j] => i = j
    <3> HIDE DEF OwnRequest
    <3>1. CASE d # c
      BY ONLY <1>5, <1>9, <3>1, d \in Client
    <3>2. CASE d = c
      <4>1. /\ \A i \in DOMAIN q : OwnRequest(c, q[i])
            /\ \A i, j \in DOMAIN q : q[i] = q[j] => i = j
        BY ONLY <1>5, c \in Client
      <4>2. m \in Int
        OBVIOUS
      <4> HIDE DEF q
      <4>3. \A i, j \in DOMAIN p : p[i] = p[j] => i = j
        <5> TAKE i, j \in DOMAIN p
        <5>1. p[i] = p[j] => m + i = m + j
          BY ONLY <1>4, <4>1, i \in DOMAIN p, j \in DOMAIN p
        <5>2. i \in Int /\ j \in Int
          BY ONLY <1>4, i \in DOMAIN p, j \in DOMAIN p
        <5> QED BY ONLY <4>2, <5>1, <5>2
      <4>4. \A i \in DOMAIN p : OwnRequest(c, p[i])
        BY ONLY <1>4, <4>1
      <4> QED BY ONLY <1>10, <3>2, <4>3, <4>4
    <3> QED BY ONLY <3>1, <3>2
  <2>2. \A d \in Client : /\ g.cc[d].parsed = h.cc[d].parsed
                          /\ g.cc[d].messages = h.cc[d].messages
    BY ONLY <1>9
  <2> QED BY ONLY <2>1, <2>2 DEF Own, OwnRequest
<1>12. \A r \in Req : r[1] \in Client
  BY DEF Req
<1>13. Unread(g)
  BY <1>9, <1>12 DEF HandlerInv, Unread
<1>14. \A k \in Conn, r \in Req : Has(g, k, r) = Has(h, k, r)
  BY DEF Has
<1>15. Delivered(g) /\ GoodOpen(g)
  BY <1>14 DEF HandlerInv, Delivered, GoodOpen
<1>16. DOMAIN p = 1..Len(p) /\ DOMAIN q = 1..Len(q)
  BY ONLY <1>3
<1>17. \A r : Contains(p, r) => Contains(q, r)
  <2>1. \A i \in DOMAIN p : m + i \in DOMAIN q /\ p[i] = q[m + i]
    BY ONLY <1>4
  <2> HIDE DEF q
  <2> QED BY ONLY <1>16, <2>1 DEF Contains
<1>18. \A d \in Client, r \in Req : Waits(g, d, r) => Waits(h, d, r)
  <2> TAKE d \in Client, r \in Req
  <2>1. Contains(g.cc[d].requests, r) => Contains(h.cc[d].requests, r)
    BY <1>9, <1>10, <1>17
  <2> QED BY <1>9, <2>1 DEF Waits
<1>19. \A d \in Client, r \in Req : 
             Waits(h, d, r) /\ g.cc[d].open /\ g.cc[d].good => Waits(g, d, r)
  <2> SUFFICES ASSUME NEW d \in Client, NEW r \in Req, Waits(h, d, r),
                      g.cc[d].open, g.cc[d].good
               PROVE  Contains(g.cc[d].requests, r)
    BY <1>9 DEF Waits
  <2>1. CASE d # c
    BY <1>9, <2>1 DEF Waits
  <2>2. CASE d = c
    <3>1. PICK i \in DOMAIN q : q[i] = r
      <4>1. Contains(q, r)
        BY ONLY <2>2, Waits(h, d, r) DEF Waits
      <4> QED BY ONLY <1>16, <4>1 DEF Contains
    <3>2. h.req[r].res = "none" /\ x.open /\ x.good
      BY <1>7, <2>2 DEF Waits
    <3>3. ~(i <= m)
      <4>1. i \in 1..Len(q)
        BY <1>3
      <4>2. i <= m => i \in 1..m
        BY <1>2, <4>1
      <4> QED BY <3>1, <3>2, <4>2
    <3>4. i - m \in DOMAIN p /\ p[i - m] = r
      BY <1>4, <3>1, <3>3
    <3>5. Contains(p, r)
      BY <1>16, <3>4 DEF Contains
    <3> QED BY <1>10, <2>2, <3>5
  <2> QED BY <2>1, <2>2
<1>20. BlockedOK(g)
  <2> SUFFICES ASSUME NEW d \in Client, g.cc[d].open, g.cc[d].good, g.cc[d].block
               PROVE  \E r \in Req : Waits(g, d, r) /\ g.req[r].cmd \in Blocking
    BY DEF BlockedOK
  <2>1. PICK r \in Req : Waits(h, d, r) /\ h.req[r].cmd \in Blocking
    BY <1>9 DEF HandlerInv, BlockedOK
  <2> QED BY <1>19, <2>1
<1>21. Kept(g, {}, Conn)
  BY <1>14, <1>18 DEF HandlerInv, Kept
<1> QED BY <1>8, <1>11, <1>13, <1>15, <1>20, <1>21 DEF HandlerInv

\* The oldest of a client's answers are written, or some of them.
LEMMA ShownIs ==
    ASSUME NEW h, State(h), NEW c \in Client, NEW n \in 0..Len(h.cc[c].requests)
    PROVE  \E m \in 0..n :
             Shown(h, c, n) = [h EXCEPT !.cc[c].requests =
                                 SubSeq(h.cc[c].requests, m + 1, Len(h.cc[c].requests))]
<1> DEFINE q == h.cc[c].requests
           HasResponse(i) == h.req[q[i]].res # "null"
           m == IF \E i \in 1..n : HasResponse(i)
                THEN CHOOSE i \in 1..n : HasResponse(i) /\ \A j \in i + 1..n : ~HasResponse(j)
                ELSE n
<1>1. State(h) /\ h.cc[c] \in AcceptConn
  BY DEF State
<1>2. q \in Seq(Req) /\ Len(q) \in Nat
  BY ONLY <1>1, RequestsAre
<1>3. m \in 0..n
  <2> DEFINE T == {i \in 1..n : HasResponse(i)}
  <2>1. n \in Nat
    BY <1>2
  <2>2. CASE T = {}
    <3>1. ~\E i \in 1..n : HasResponse(i)
      BY ONLY <2>2
    <3>2. m = n
      BY ONLY <3>1
    <3> HIDE DEF m
    <3> QED BY ONLY <2>1, <3>2
  <2>3. CASE T # {}
    <3> HIDE DEF HasResponse
    <3>1. PICK l \in T : \A j \in T : l >= j
      BY <2>1, <2>3, WriteAll!MaxIn
    <3>2. HasResponse(l) /\ \A j \in l + 1..n : ~HasResponse(j)
      BY <2>1, <3>1
    <3>3. m = CHOOSE i \in 1..n : HasResponse(i) /\ \A j \in i + 1..n : ~HasResponse(j)
      BY <2>3
    <3> HIDE DEF m
    <3>4. m \in 1..n
      BY <3>1, <3>2, <3>3
    <3> QED BY <2>1, <3>4
  <2> QED BY <2>2, <2>3
<1>4. Shown(h, c, n) = [h EXCEPT !.cc[c].requests = SubSeq(q, m + 1, Len(q))]
  BY DEF Shown
<1> QED BY <1>3, <1>4

\* A client's answers are written.
LEMMA ShownKeeps ==
    ASSUME NEW h, HandlerInv(h, {}, Conn), NEW c \in Client,
           NEW n \in 0..Len(h.cc[c].requests),
           \A i \in 1..n : h.req[h.cc[c].requests[i]].res # "none"
    PROVE  HandlerInv(Shown(h, c, n), {}, Conn) /\ Shown(h, c, n).postA = h.postA
<1> DEFINE q == h.cc[c].requests
           g == Shown(h, c, n)
<1>1. State(h) /\ h.cc[c] \in AcceptConn
  BY ONLY HandlerInv(h, {}, Conn), c \in Client DEF HandlerInv, State
<1>2. q \in Seq(Req) /\ Len(q) \in Nat
  BY ONLY <1>1, RequestsAre
<1>3. PICK m \in 0..n : g = [h EXCEPT !.cc[c].requests = SubSeq(q, m + 1, Len(q))]
  BY <1>1, ShownIs
<1> DEFINE x == [h.cc[c] EXCEPT !.requests = SubSeq(q, m + 1, Len(q))]
<1>5. m \in 0..Len(q) /\ \A i \in 1..m : h.req[q[i]].res # "none"
  BY <1>2, <1>3
<1>6. /\ DOMAIN g = Parts /\ g.sc = h.sc /\ g.idle = h.idle /\ g.req = h.req
      /\ g.postA = h.postA /\ g.postS = h.postS /\ g.cc = [h.cc EXCEPT ![c] = x]
  BY <1>1, <1>3 DEF State, Parts
<1>7. SubSeq(q, m + 1, Len(q)) \in Seq(Req)
  <2> HIDE DEF q
  <2> QED BY <1>2, <1>5, DropIs
<1>8. /\ x \in AcceptConn /\ x.open = h.cc[c].open /\ x.good = h.cc[c].good
      /\ x.block = h.cc[c].block /\ x.parsed = h.cc[c].parsed
      /\ x.messages = h.cc[c].messages /\ x.requests = SubSeq(q, m + 1, Len(q))
  BY <1>1, <1>7 DEF AcceptConn
<1> HIDE DEF g, x
<1>9. g.postA \in Seq(Client)
  BY <1>1, <1>6 DEF State
<1>10. HandlerInv(g, {}, Conn)
  <2>1. /\ x \in AcceptConn /\ x.block = h.cc[c].block
        /\ x.parsed = h.cc[c].parsed /\ x.messages = h.cc[c].messages
    BY ONLY <1>8
  <2>2. (x.open => h.cc[c].open) /\ (x.good => h.cc[c].good)
    BY ONLY <1>8
  <2>3. x.requests = SubSeq(h.cc[c].requests, m + 1, Len(h.cc[c].requests))
    BY ONLY <1>8 DEF q
  <2>4. m \in 0..Len(h.cc[c].requests) /\ \A i \in 1..m : h.req[h.cc[c].requests[i]].res # "none"
    BY ONLY <1>5 DEF q
  <2> QED BY ONLY HandlerInv(h, {}, Conn), c \in Client, <1>6, <1>9, <2>1, <2>2, <2>3, <2>4,
                  DropKeeps, Zenon
<1> QED BY <1>6, <1>10 DEF g

\* A connection goes wrong.
LEMMA BadGets ==
    ASSUME NEW h, State(h), GoodOpen(h), NEW k \in Conn
    PROVE  Gets(h, [h EXCEPT !.sc[k].good = FALSE])
<1> DEFINE g == [h EXCEPT !.sc[k].good = FALSE]
           y == [h.sc[k] EXCEPT !.good = FALSE]
<1>1. h.sc[k] \in ConnectConn
  BY DEF State
<1>2. /\ DOMAIN g = Parts /\ g.cc = h.cc /\ g.req = h.req /\ g.idle = h.idle
      /\ g.postS = h.postS /\ g.postA = h.postA
      /\ g.sc = [h.sc EXCEPT ![k] = y]
  BY <1>1 DEF State, Parts
<1>3. /\ y \in ConnectConn /\ y.link = h.sc[k].link /\ ~y.good
      /\ y.send = h.sc[k].send /\ y.sent = h.sc[k].sent
  BY <1>1 DEF ConnectConn
<1> HIDE DEF g, y
<1>4. \A j \in Conn : g.sc[j] = IF j = k THEN y ELSE h.sc[j]
  BY <1>2 DEF State
<1>5. State(g) /\ SameClients(h, g) /\ SameBlocks(h, g)
  BY <1>2, <1>3 DEF State, SameClients, SameBlocks, SameClient
<1>6. GoodOpen(g)
  BY <1>3, <1>4 DEF GoodOpen, Open
<1>7. \A j \in Conn : /\ g.sc[j].send = h.sc[j].send /\ g.sc[j].sent = h.sc[j].sent
                      /\ Open(h.sc[j]) => Open(g.sc[j])
  BY <1>3, <1>4 DEF Open
<1>8. g.req = h.req
  BY <1>2
<1>9. Gets(h, g)
  BY <1>5, <1>6, <1>7, <1>8 DEF Gets
<1> QED BY <1>9 DEF g

\* A client is closed.
LEMMA CloseClientKeeps ==
    ASSUME NEW h, HandlerInv(h, {}, Conn), NEW c \in Client
    PROVE  /\ HandlerInv(CloseClient(h, c), {}, Conn)
           /\ h.postA # <<>> => CloseClient(h, c).postA # <<>>
<1> DEFINE k == h.cc[c].conn
           q == h.cc[c].requests
           x == [h.cc[c] EXCEPT !.open = FALSE, !.requests = <<>>]
           closed == [h EXCEPT !.cc[c].open = FALSE, !.cc[c].requests = <<>>]
           bad == [closed EXCEPT !.sc[k].good = FALSE]
           posted == PostS(bad, k, "Error")
           done == Detach(posted, c, k)
<1>1. CloseClient(h, c) = IF k = None THEN closed ELSE done
  BY DEF CloseClient
<1>2. State(h) /\ h.cc[c] \in AcceptConn /\ k \in Conn \cup {None}
  BY DEF HandlerInv, State, AcceptConn
<1>3. q \in Seq(Req) /\ Len(q) \in Nat
  BY <1>2, RequestsAre
<1>4. HandlerInv(closed, {}, Conn) /\ closed.postA = h.postA
  <2>1. /\ DOMAIN closed = Parts /\ closed.sc = h.sc /\ closed.idle = h.idle
        /\ closed.req = h.req /\ closed.postA = h.postA /\ closed.postS = h.postS
        /\ closed.cc = [h.cc EXCEPT ![c] = x]
    BY <1>2 DEF State, Parts
  <2>2. <<>> \in Seq(Req)
    OBVIOUS
  <2>3. /\ x \in AcceptConn /\ ~x.open /\ x.good = h.cc[c].good
        /\ x.block = h.cc[c].block /\ x.parsed = h.cc[c].parsed
        /\ x.messages = h.cc[c].messages /\ x.requests = <<>>
    BY <1>2, <2>2 DEF AcceptConn
  <2>4. SubSeq(q, Len(q) + 1, Len(q)) = <<>> /\ Len(q) \in 0..Len(q)
    <3> HIDE DEF q
    <3>1. Len(q) + 1 > Len(q) /\ Len(q) + 1 \in Nat
      BY <1>3
    <3> QED BY <1>3, <3>1
  <2> HIDE DEF closed, x
  <2>5. closed.postA \in Seq(Client)
    BY <1>2, <2>1 DEF State
  <2>6. /\ x.open => h.cc[c].open
        /\ x.good => h.cc[c].good
        /\ ~(x.open /\ x.good)
        /\ x.requests = SubSeq(h.cc[c].requests, Len(q) + 1, Len(h.cc[c].requests))
    BY ONLY <2>3, <2>4
  <2> QED BY ONLY <2>1, <2>3, <2>4, <2>5, <2>6, HandlerInv(h, {}, Conn), c \in Client, DropKeeps
<1> HIDE DEF closed
<1>5. ASSUME k \in Conn
      PROVE  HandlerInv(done, {}, Conn) /\ (closed.postA # <<>> => done.postA # <<>>)
  <2>1. Gets(closed, bad)
    BY <1>4, <1>5, BadGets DEF HandlerInv
  <2> HIDE DEF bad
  <2>2. HandlerInv(bad, {}, Conn)
    BY <1>4, <2>1, GetsKeep
  <2>3. Frame(bad, posted)
    BY <1>5, <2>2, PostSFrame DEF HandlerInv, Event
  <2> HIDE DEF posted
  <2>4. Frame(posted, done)
    BY <1>5, <2>3, DetachFrame DEF Frame
  <2> HIDE DEF done
  <2>5. HandlerInv(done, {}, Conn)
    BY <2>2, <2>3, <2>4, FrameTrans, FrameKeeps
  <2>6. closed.postA # <<>> => done.postA # <<>>
    BY <2>1, <2>3, <2>4 DEF Gets, Frame, SameClients
  <2> QED BY <2>5, <2>6
<1> HIDE DEF done
<1> QED BY <1>1, <1>2, <1>4, <1>5

-----------------------------------------------------------------------------
(* What arrives.                                                           *)

\* A request of client c has arrived, with the next number: of those it sent, or
\* of those that stand for a message.
Arrives(h, g, c, n, r, cmd, x) ==
    /\ r = <<c, n>> /\ cmd \in Command \cup {"submsg"} /\ x \in AcceptConn
    /\ \/ /\ n = h.cc[c].parsed + 1 /\ n \in 1..MaxReq
          /\ x.parsed = n /\ x.messages = h.cc[c].messages
       \/ /\ n = MaxReq + h.cc[c].messages + 1 /\ cmd = "submsg"
          /\ x.parsed = h.cc[c].parsed /\ x.messages = h.cc[c].messages + 1
    /\ x.requests = Append(h.cc[c].requests, r) /\ x.open = h.cc[c].open
    /\ x.good = h.cc[c].good /\ x.block = h.cc[c].block
    /\ DOMAIN g = Parts /\ g.cc = [h.cc EXCEPT ![c] = x]
    /\ g.req = [h.req EXCEPT ![r].cmd = cmd]
    /\ g.sc = h.sc /\ g.idle = h.idle /\ g.postA = h.postA /\ g.postS = h.postS

\* It is not delivered yet, or is exempt.
LEMMA ArriveKeeps ==
    ASSUME NEW h, HandlerInv(h, {}, Conn), NEW c \in Client, NEW n, NEW r \in Req,
           NEW cmd, NEW x, NEW g, Arrives(h, g, c, n, r, cmd, x)
    PROVE  /\ HandlerInv(g, {r}, Conn) /\ Contains(g.cc[c].requests, r)
           /\ g.req[r].cmd = cmd /\ n \notin g.cc[c].parsed + 1..MaxReq
           /\ n \in 1..MaxReq => ~g.req[r].delivered /\ HandlerInv(g, {}, Conn)
<1>1. /\ cmd \in Command \cup {"submsg"} /\ x \in AcceptConn
      /\ \/ /\ n = h.cc[c].parsed + 1 /\ n \in 1..MaxReq
            /\ x.parsed = n /\ x.messages = h.cc[c].messages
         \/ /\ n = MaxReq + h.cc[c].messages + 1 /\ cmd = "submsg"
            /\ x.parsed = h.cc[c].parsed /\ x.messages = h.cc[c].messages + 1
      /\ x.requests = Append(h.cc[c].requests, r) /\ x.open = h.cc[c].open
      /\ x.good = h.cc[c].good /\ x.block = h.cc[c].block
      /\ DOMAIN g = Parts /\ g.cc = [h.cc EXCEPT ![c] = x]
      /\ g.req = [h.req EXCEPT ![r].cmd = cmd]
      /\ g.sc = h.sc /\ g.idle = h.idle /\ g.postA = h.postA /\ g.postS = h.postS
  BY DEF Arrives
<1>2. r \in Req /\ r = <<c, n>> /\ r[1] = c /\ r[2] = n
  BY DEF Arrives
<1> USE <1>1, <1>2
<1> DEFINE q == h.cc[c].requests
           p == x.requests
<1>3. State(h) /\ h.cc[c] \in AcceptConn /\ h.req[r] \in Request
  BY DEF HandlerInv, State
<1>4. /\ q \in Seq(Req) /\ Len(q) \in Nat /\ h.cc[c].parsed \in 0..MaxReq
      /\ h.cc[c].messages \in Nat /\ MaxReq \in Nat
  BY <1>3, RequestsAre
<1>5. /\ n \notin (1..h.cc[c].parsed) \cup (MaxReq + 1..MaxReq + h.cc[c].messages)
      /\ n \in (1..x.parsed) \cup (MaxReq + 1..MaxReq + x.messages)
      /\ n \notin x.parsed + 1..MaxReq
      /\ n \in 1..MaxReq => n \in h.cc[c].parsed + 1..MaxReq
      /\ \A t \in (1..h.cc[c].parsed) \cup (MaxReq + 1..MaxReq + h.cc[c].messages) :
            t \in (1..x.parsed) \cup (MaxReq + 1..MaxReq + x.messages)
      /\ \A t \in x.parsed + 1..MaxReq : t \in h.cc[c].parsed + 1..MaxReq
  <2>1. \/ n = h.cc[c].parsed + 1 /\ n \in 1..MaxReq /\ x.parsed = n
           /\ x.messages = h.cc[c].messages
        \/ n = MaxReq + h.cc[c].messages + 1 /\ x.parsed = h.cc[c].parsed
           /\ x.messages = h.cc[c].messages + 1
    OBVIOUS
  <2> DEFINE a == h.cc[c].parsed
             b == h.cc[c].messages
             e == x.parsed
             f == x.messages
  <2>2. /\ a \in 0..MaxReq /\ b \in Nat /\ MaxReq \in Nat
        /\ \/ n = a + 1 /\ n \in 1..MaxReq /\ e = n /\ f = b
           \/ n = MaxReq + b + 1 /\ e = a /\ f = b + 1
    BY <1>4, <2>1
  <2> HIDE DEF a, b, e, f
  <2>3. /\ n \notin (1..a) \cup (MaxReq + 1..MaxReq + b)
        /\ n \in (1..e) \cup (MaxReq + 1..MaxReq + f)
        /\ n \notin e + 1..MaxReq
        /\ n \in 1..MaxReq => n \in a + 1..MaxReq
        /\ \A t \in (1..a) \cup (MaxReq + 1..MaxReq + b) :
              t \in (1..e) \cup (MaxReq + 1..MaxReq + f)
        /\ \A t \in e + 1..MaxReq : t \in a + 1..MaxReq
    BY ONLY <2>2
  <2> QED BY <2>3 DEF a, b, e, f
<1>6. /\ p = Append(q, r) /\ r[1] = c /\ r[2] = n
  OBVIOUS
<1>7. /\ \A i \in DOMAIN p : (i \in DOMAIN q /\ p[i] = q[i]) \/ (i = Len(q) + 1 /\ p[i] = r)
      /\ \A s : Contains(p, s) <=> Contains(q, s) \/ s = r
  <2> HIDE DEF p, q
  <2>1. /\ DOMAIN q = 1..Len(q) /\ DOMAIN p = 1..Len(q) + 1 /\ Len(p) = Len(q) + 1
        /\ \A i \in 1..Len(q) + 1 : p[i] = IF i <= Len(q) THEN q[i] ELSE r
    BY <1>4, <1>6
  <2>2. \A i \in 1..Len(q) + 1 : \/ i \in 1..Len(q) /\ i <= Len(q)
                                 \/ i = Len(q) + 1 /\ ~(i <= Len(q))
    BY ONLY <1>4
  <2>3. Len(q) + 1 \in 1..Len(q) + 1 /\ \A i \in 1..Len(q) : i \in 1..Len(q) + 1
    BY <1>4
  <2>4. \A i \in DOMAIN p : (i \in DOMAIN q /\ p[i] = q[i]) \/ (i = Len(q) + 1 /\ p[i] = r)
    BY ONLY <2>1, <2>2
  <2>5. p[Len(q) + 1] = r
    BY ONLY <2>1, <2>2, <2>3, <1>4
  <2>6. \A s : Contains(p, s) => Contains(q, s) \/ s = r
    BY ONLY <2>1, <2>2 DEF Contains
  <2>7. \A s : Contains(q, s) => Contains(p, s)
    BY ONLY <2>1, <2>2, <2>3, <1>4 DEF Contains
  <2>8. Contains(p, r)
    BY ONLY <2>1, <2>3, <2>5 DEF Contains
  <2> QED BY <2>4, <2>6, <2>7, <2>8
<1>8. \A i \in DOMAIN q : q[i][1] = c /\ q[i][2] \in (1..h.cc[c].parsed) \cup
                                                   (MaxReq + 1..MaxReq + h.cc[c].messages)
  BY DEF HandlerInv, Own
<1>9. \A i \in DOMAIN q : q[i] # r
  <2> TAKE i \in DOMAIN q
  <2>1. q[i][2] # n
    BY <1>5, <1>8
  <2> QED BY <1>6, <2>1
<1>10. ~Contains(q, r)
  <2> HIDE DEF q
  <2>1. DOMAIN q = 1..Len(q)
    BY <1>4
  <2> QED BY <1>9, <2>1 DEF Contains
<1> HIDE DEF p, q
<1>11. \A d \in Client : g.cc[d] = IF d = c THEN x ELSE h.cc[d]
  BY <1>3 DEF State
<1>12. \A s \in Req : s # r => g.req[s] = h.req[s]
  BY <1>3 DEF State
<1>13. /\ g.req[r] = [h.req[r] EXCEPT !.cmd = cmd] /\ g.req[r] \in Request
       /\ g.req[r].cmd = cmd /\ g.req[r].res = h.req[r].res
       /\ g.req[r].delivered = h.req[r].delivered
  <2>1. g.req[r] = [h.req[r] EXCEPT !.cmd = cmd]
    BY <1>3 DEF State
  <2> QED BY <1>3, <2>1 DEF Request
<1>14. State(g)
  <2>1. g.req \in [Req -> Request]
    BY <1>3, <1>13 DEF State
  <2>2. g.cc \in [Client -> AcceptConn]
    BY <1>3 DEF State
  <2> QED BY <1>3, <2>1, <2>2 DEF State
<1>15. \A d \in Client : /\ g.cc[d].open = h.cc[d].open /\ g.cc[d].good = h.cc[d].good
                         /\ g.cc[d].block = h.cc[d].block
                         /\ d # c => /\ g.cc[d].requests = h.cc[d].requests
                                     /\ g.cc[d].parsed = h.cc[d].parsed
                                     /\ g.cc[d].messages = h.cc[d].messages
  BY <1>11
<1>16. g.cc[c].requests = p /\ g.cc[c].parsed = x.parsed /\ g.cc[c].messages = x.messages
  BY <1>11 DEF p
<1>17. Own(g)
  <2> SUFFICES ASSUME NEW d \in Client
               PROVE  /\ \A i \in DOMAIN g.cc[d].requests :
                            LET s == g.cc[d].requests[i] IN
                              s[1] = d /\ s[2] \in (1..g.cc[d].parsed) \cup
                                                 (MaxReq + 1..MaxReq + g.cc[d].messages)
                      /\ \A i, j \in DOMAIN g.cc[d].requests :
                            g.cc[d].requests[i] = g.cc[d].requests[j] => i = j
    BY DEF Own
  <2>1. CASE d # c
    <3>1. /\ g.cc[d].requests = h.cc[d].requests /\ g.cc[d].parsed = h.cc[d].parsed
          /\ g.cc[d].messages = h.cc[d].messages
      BY <1>15, <2>1
    <3> QED BY ONLY HandlerInv(h, {}, Conn), <3>1 DEF HandlerInv, Own
  <2>2. CASE d = c
    <3>3. \A i \in DOMAIN p : p[i][1] = c /\ p[i][2] \in (1..x.parsed) \cup
                                                   (MaxReq + 1..MaxReq + x.messages)
      <4> TAKE i \in DOMAIN p
      <4>1. CASE i \in DOMAIN q /\ p[i] = q[i]
        BY <1>5, <1>8, <4>1
      <4>2. CASE p[i] = r
        BY <1>5, <1>6, <4>2
      <4> QED BY <1>7, <4>1, <4>2
    <3>4. \A i, j \in DOMAIN q : q[i] = q[j] => i = j
      BY DEF HandlerInv, Own, q
    <3>5. \A i, j \in DOMAIN p : p[i] = p[j] => i = j
      BY <1>7, <1>9, <3>4
    <3> QED BY ONLY <1>16, <2>2, <3>3, <3>5
  <2> QED BY <2>1, <2>2
<1>18. r[2] \notin x.parsed + 1..MaxReq
  BY <1>5, <1>6
<1>19. \A s \in Req : s[1] \in Client
  BY DEF Req
<1>20. n \in 1..MaxReq => ~h.req[r].delivered /\ h.req[r].res = "none"
  BY <1>5, <1>6 DEF HandlerInv, Unread
<1>21. Unread(g)
  <2> SUFFICES ASSUME NEW s \in Req, s[2] \in g.cc[s[1]].parsed + 1..MaxReq
               PROVE  ~g.req[s].delivered /\ g.req[s].res = "none"
    BY DEF Unread
  <2>1. s # r
    BY <1>6, <1>16, <1>18
  <2>2. s[2] \in h.cc[s[1]].parsed + 1..MaxReq
    <3>1. CASE s[1] # c
      BY <1>15, <1>19, <3>1
    <3>2. CASE s[1] = c
      <4>1. s[2] \in x.parsed + 1..MaxReq
        BY <1>16, <3>2
      <4> QED BY <1>5, <3>2, <4>1
    <3> QED BY <3>1, <3>2
  <2> QED BY <1>12, <2>1, <2>2 DEF HandlerInv, Unread
<1>22. \A k \in Conn, s \in Req : Has(g, k, s) = Has(h, k, s)
  BY DEF Has
<1>23. cmd \in Blocking => n \in 1..MaxReq
  BY DEF Blocking
<1>24. Delivered(g)
  <2> SUFFICES ASSUME NEW s \in Req
               PROVE  /\ (\E k \in Conn : Has(g, k, s)) => g.req[s].delivered
                      /\ ~g.req[s].delivered /\ g.req[s].cmd \in Blocking => g.req[s].res = "none"
    BY DEF Delivered
  <2>1. CASE s # r
    BY <1>12, <1>22, <2>1 DEF HandlerInv, Delivered
  <2>2. CASE s = r
    BY <1>13, <1>20, <1>22, <1>23, <2>2 DEF HandlerInv, Delivered
  <2> QED BY <2>1, <2>2
<1>25. GoodOpen(g)
  BY DEF HandlerInv, GoodOpen
<1>26. \A d \in Client, s \in Req : s # r => (Waits(g, d, s) <=> Waits(h, d, s))
  <2> SUFFICES ASSUME NEW d \in Client, NEW s \in Req, s # r
               PROVE  Waits(g, d, s) <=> Waits(h, d, s)
    OBVIOUS
  <2>1. Contains(g.cc[d].requests, s) <=> Contains(h.cc[d].requests, s)
    BY <1>7, <1>15, <1>16 DEF q
  <2> QED BY <1>12, <1>15, <2>1 DEF Waits
<1>27. \A d \in Client : ~Waits(h, d, r)
  <2> SUFFICES ASSUME NEW d \in Client, Contains(h.cc[d].requests, r) PROVE FALSE
    BY DEF Waits
  <2>1. r[1] = d
    <3>1. Own(h) /\ h.cc[d].requests \in Seq(Req)
      BY DEF HandlerInv, State, AcceptConn
    <3> QED BY ONLY <3>1, d \in Client, Contains(h.cc[d].requests, r) DEF Own, Contains
  <2> QED BY <1>6, <1>10, <2>1 DEF q
<1>28. BlockedOK(g)
  <2> SUFFICES ASSUME NEW d \in Client, g.cc[d].open, g.cc[d].good, g.cc[d].block
               PROVE  \E s \in Req : Waits(g, d, s) /\ g.req[s].cmd \in Blocking
    BY DEF BlockedOK
  <2>1. PICK s \in Req : Waits(h, d, s) /\ h.req[s].cmd \in Blocking
    BY <1>15 DEF HandlerInv, BlockedOK
  <2>2. s # r
    BY <1>27, <2>1
  <2> QED BY <1>12, <1>26, <2>1, <2>2
<1>29. Kept(g, {r}, Conn)
  BY <1>22, <1>26 DEF HandlerInv, Kept
<1>30. n \in 1..MaxReq => Kept(g, {}, Conn)
  <2>1. n \in 1..MaxReq => \A d \in Client : ~Waits(g, d, r)
    BY <1>13, <1>20 DEF Waits
  <2> QED BY <1>29, <2>1 DEF Kept
<1>31. /\ HandlerInv(g, {r}, Conn)
       /\ n \in 1..MaxReq => HandlerInv(g, {}, Conn)
  BY <1>14, <1>17, <1>21, <1>24, <1>25, <1>28, <1>29, <1>30 DEF HandlerInv
<1>32. Contains(g.cc[c].requests, r) /\ r[2] \notin g.cc[c].parsed + 1..MaxReq
  BY <1>7, <1>16, <1>18
<1> QED BY <1>13, <1>20, <1>31, <1>32

\* If fewer than MaxReq requests were read, so of each client.
LEMMA ParsedBound ==
    ASSUME cc \in [Client -> AcceptConn], Parsed < MaxReq, NEW c \in Client
    PROVE  cc[c].parsed + 1 \in 1..MaxReq
<1> DEFINE S == {r \in Client \X (1..MaxReq) : r[2] <= cc[r[1]].parsed}
           T == {c} \X (1..MaxReq)
<1>1. MaxReq \in Nat /\ IsFiniteSet(Client) /\ cc[c].parsed \in 0..MaxReq
  BY SessionAssumption DEF AcceptConn
<1>2. IsFiniteSet(1..MaxReq) /\ Cardinality(1..MaxReq) = MaxReq
  BY <1>1, FS_Interval
<1>3. IsFiniteSet(Client \X (1..MaxReq))
  BY <1>1, <1>2, FS_Product
<1>4. IsFiniteSet(S)
  BY <1>3, FS_Subset
<1>5. Cardinality(T) = MaxReq
  <2>1. IsFiniteSet({c}) /\ Cardinality({c}) = 1
    BY FS_Singleton
  <2>2. Cardinality(T) = 1 * Cardinality(1..MaxReq)
    BY ONLY <1>2, <2>1, FS_Product, Zenon
  <2> QED BY ONLY <1>1, <1>2, <2>2
<1>6. SUFFICES ASSUME cc[c].parsed = MaxReq PROVE FALSE
  BY <1>1
<1>7. T \subseteq S
  BY <1>1, <1>6
<1>8. Cardinality(T) <= Cardinality(S)
  BY <1>4, <1>7, FS_Subset
<1>9. Cardinality(S) < MaxReq
  BY DEF Parsed
<1> HIDE DEF S, T
<1>10. Cardinality(S) \in Nat
  BY <1>4, FS_CardinalityType
<1> QED BY <1>1, <1>5, <1>8, <1>9, <1>10

-----------------------------------------------------------------------------
(* The steps of the handler.                                               *)

Held == HandlerInv(Handler, {}, Conn)

\* The handler becomes what it is said to become.
LEMMA BecomesHeld ==
    ASSUME NEW h, HandlerInv(h, {}, Conn), Becomes(h)
    PROVE  Held'
<1> DEFINE g == Handler'
<1>1. /\ DOMAIN g = Parts /\ g.cc = h.cc /\ g.sc = h.sc /\ g.idle = h.idle
      /\ g.req = h.req /\ g.postA = h.postA /\ g.postS = h.postS
  BY DEF Handler, Becomes, Parts
<1>2. Held' = HandlerInv(g, {}, Conn)
  BY DEF Held
<1> HIDE DEF g
<1>3. Frame(h, h)
  BY FrameSame DEF HandlerInv
<1>4. State(g)
  BY <1>1 DEF HandlerInv, State
<1>5. Frame(h, g)
  BY <1>1, <1>3, <1>4 DEF Frame, SameClients, SameBlocks, SameConns
<1> QED BY <1>2, <1>5, FrameKeeps

\* What the handler's parts are.
LEMMA Fields ==
    /\ DOMAIN Handler = Parts /\ Handler.cc = cc /\ Handler.sc = sc /\ Handler.idle = idle
    /\ Handler.req = req /\ Handler.postA = postA /\ Handler.postS = postS
BY DEF Handler, Parts

\* A client sends a request.
LEMMA ReadHeld ==
    ASSUME Held, NEW c \in Client, NEW cmd \in Uses[c], Read(c, cmd)
    PROVE  Held'
<1> DEFINE n == cc[c].parsed + 1
           r == <<c, n>>
           x == [cc[c] EXCEPT !.parsed = n, !.requests = Append(cc[c].requests, r)]
           h == [Handler EXCEPT !.cc[c].parsed = @ + 1,
                                !.cc[c].requests = Append(@, r),
                                !.req[r].cmd = cmd]
<1>1. /\ Parsed < MaxReq
      /\ \/ cmd = "unknown" /\ Becomes(HandleResponse(h, None, r, "err"))
         \/ \E g \in HandleRequest(h, r) : Becomes(g)
  BY DEF Read
<1>2. HandlerInv(Handler, {}, Conn) /\ State(Handler)
  BY DEF Held, HandlerInv
<1>3. /\ cc \in [Client -> AcceptConn] /\ cc[c] \in AcceptConn
      /\ cc[c].requests \in Seq(Req) /\ cc[c].parsed \in 0..MaxReq /\ MaxReq \in Nat
  BY <1>2, Fields, RequestsAre DEF State
<1>4. n \in 1..MaxReq
  BY <1>1, <1>3, ParsedBound
<1>5. r \in Req
  BY <1>4, SessionAssumption DEF Req
<1>6. cmd \in Command
  BY SessionAssumption
<1>7. /\ DOMAIN h = Parts /\ h.cc = [cc EXCEPT ![c] = x]
      /\ h.req = [req EXCEPT ![r].cmd = cmd] /\ h.sc = sc /\ h.idle = idle
      /\ h.postA = postA /\ h.postS = postS
  <2> HIDE DEF n, r
  <2>1. cc[c].parsed + 1 = n
    BY DEF n
  <2> QED BY <1>3, <2>1 DEF Handler, Parts, AcceptConn
<1>8. /\ x \in AcceptConn /\ x.parsed = n /\ x.requests = Append(cc[c].requests, r)
      /\ x.messages = cc[c].messages /\ x.open = cc[c].open /\ x.good = cc[c].good
      /\ x.block = cc[c].block
  <2>1. n \in 0..MaxReq /\ Append(cc[c].requests, r) \in Seq(Req)
    BY <1>3, <1>4, <1>5
  <2> HIDE DEF n, r
  <2> QED BY <1>3, <2>1 DEF AcceptConn
<1> HIDE DEF h, x
<1>9. /\ HandlerInv(h, {}, Conn) /\ Contains(h.cc[c].requests, r) /\ h.req[r].cmd = cmd
      /\ r[2] \notin h.cc[c].parsed + 1..MaxReq /\ ~h.req[r].delivered
  <2>1. n = cc[c].parsed + 1 /\ r = <<c, n>>
    OBVIOUS
  <2> HIDE DEF n, r
  <2>2. /\ n = Handler.cc[c].parsed + 1 /\ n \in 1..MaxReq
        /\ x.parsed = n /\ x.messages = Handler.cc[c].messages
        /\ x.requests = Append(Handler.cc[c].requests, r) /\ x.open = Handler.cc[c].open
        /\ x.good = Handler.cc[c].good /\ x.block = Handler.cc[c].block
        /\ x \in AcceptConn /\ cmd \in Command \cup {"submsg"}
    BY <1>4, <1>6, <1>8, <2>1, Fields
  <2>3. /\ DOMAIN h = Parts /\ h.cc = [Handler.cc EXCEPT ![c] = x]
        /\ h.req = [Handler.req EXCEPT ![r].cmd = cmd] /\ h.sc = Handler.sc
        /\ h.idle = Handler.idle /\ h.postA = Handler.postA /\ h.postS = Handler.postS
    BY <1>7, Fields
  <2>4. Arrives(Handler, h, c, n, r, cmd, x)
    BY <2>1, <2>2, <2>3 DEF Arrives
  <2>5. r \in Req
    BY <1>5, <2>1
  <2>6. req[r] \in Request /\ req \in [Req -> Request]
    BY <1>2, <2>5, Fields DEF State
  <2>7. h.req[r].cmd = cmd
    BY ONLY <1>7, <2>5, <2>6 DEF Request
  <2>8. /\ Contains(h.cc[c].requests, r) /\ n \notin h.cc[c].parsed + 1..MaxReq
        /\ n \in 1..MaxReq => ~h.req[r].delivered /\ HandlerInv(h, {}, Conn)
    BY ONLY <1>2, <2>4, <2>5, c \in Client, ArriveKeeps
  <2>9. r[2] = n
    BY ONLY <2>1
  <2> QED BY ONLY <1>4, <2>7, <2>8, <2>9
<1>10. r[1] = c
  OBVIOUS
<1> HIDE DEF r, n
<1>11. CASE cmd = "unknown" /\ Becomes(HandleResponse(h, None, r, "err"))
  <2> DEFINE g == HandleResponse(h, None, r, "err")
  <2>1. Answers(h, g, r, "err")
    BY <1>5, <1>9, HandleResponseAnswers DEF HandlerInv, Response
  <2>2. Becomes(g)
    BY <1>11
  <2> HIDE DEF g
  <2>3. cmd \notin Blocking
    BY <1>11 DEF Blocking
  <2>4. HandlerInv(g, {} \ {r}, Conn)
    BY <1>5, <1>9, <1>10, <2>1, <2>3, AnswersKeep DEF Response
  <2>5. {} \ {r} = {}
    OBVIOUS
  <2> QED BY <2>2, <2>4, <2>5, BecomesHeld
<1>12. CASE \E g \in HandleRequest(h, r) : Becomes(g)
  <2>1. PICK g \in HandleRequest(h, r) : Becomes(g)
    BY <1>12
  <2>2. New(h, r)
    BY <1>9, <1>10 DEF New
  <2>3. HandlerInv(g, {}, Conn)
    BY <1>5, <1>9, <2>2, HandleRequestKeeps
  <2> QED BY <2>1, <2>3, BecomesHeld
<1> QED BY <1>1, <1>11, <1>12

\* A message is published to a client.
LEMMA ReadMessageHeld ==
    ASSUME Held, NEW k \in Conn, ReadMessage(k)
    PROVE  Held'
<1> DEFINE c == sc[k].acc
           n == MaxReq + cc[c].messages + 1
           r == <<c, n>>
           x == [cc[c] EXCEPT !.messages = @ + 1, !.requests = Append(cc[c].requests, r)]
           h == [Handler EXCEPT !.cc[c].messages = @ + 1,
                                !.cc[c].requests = Append(@, r),
                                !.req[r].cmd = "submsg"]
           g == HandleResponse(h, k, r, "data")
<1>1. c # None /\ cc[c].messages < MaxMsg /\ Becomes(g)
  BY DEF ReadMessage
<1>2. HandlerInv(Handler, {}, Conn) /\ State(Handler)
  BY DEF Held, HandlerInv
<1>3. c \in Client
  BY <1>1, <1>2, Fields DEF State, ConnectConn
<1> HIDE DEF c
<1>4. /\ cc \in [Client -> AcceptConn] /\ cc[c] \in AcceptConn
      /\ cc[c].requests \in Seq(Req) /\ cc[c].messages \in Nat /\ MaxReq \in Nat
  BY <1>2, <1>3, Fields, RequestsAre DEF State
<1>5. MaxMsg \in Nat /\ cc[c].messages + 1 \in 0..MaxMsg /\ n \in 1..MaxReq + MaxMsg
  <2> DEFINE m == cc[c].messages
  <2>1. MaxMsg \in Nat
    BY SessionAssumption
  <2>2. m \in Nat /\ m < MaxMsg /\ MaxReq \in Nat
    BY <1>1, <1>4
  <2> HIDE DEF m
  <2>3. m + 1 \in 0..MaxMsg /\ MaxReq + m + 1 \in 1..MaxReq + MaxMsg
    BY <2>1, <2>2
  <2> QED BY <2>1, <2>3 DEF m
<1>6. r \in Req /\ r[1] = c
  BY <1>3, <1>5 DEF Req
<1>7. /\ DOMAIN h = Parts /\ h.cc = [cc EXCEPT ![c] = x]
      /\ h.req = [req EXCEPT ![r].cmd = "submsg"] /\ h.sc = sc /\ h.idle = idle
      /\ h.postA = postA /\ h.postS = postS
  <2> HIDE DEF n, r
  <2> QED BY <1>3, <1>4 DEF Handler, Parts, AcceptConn
<1>8. /\ x \in AcceptConn /\ x.messages = cc[c].messages + 1
      /\ x.requests = Append(cc[c].requests, r)
      /\ x.parsed = cc[c].parsed /\ x.open = cc[c].open /\ x.good = cc[c].good
      /\ x.block = cc[c].block
  <2>1. Append(cc[c].requests, r) \in Seq(Req)
    BY <1>4, <1>6
  <2> HIDE DEF n, r
  <2> QED BY <1>4, <1>5, <2>1 DEF AcceptConn
<1> HIDE DEF h, x
<1>9. /\ HandlerInv(h, {r}, Conn) /\ h.req[r].cmd = "submsg"
      /\ r[2] \notin h.cc[c].parsed + 1..MaxReq
  <2>1. n = MaxReq + cc[c].messages + 1 /\ r = <<c, n>> /\ "submsg" \in Command \cup {"submsg"}
    OBVIOUS
  <2> HIDE DEF n, r
  <2>2. /\ n = MaxReq + Handler.cc[c].messages + 1
        /\ x.parsed = Handler.cc[c].parsed /\ x.messages = Handler.cc[c].messages + 1
        /\ x.requests = Append(Handler.cc[c].requests, r) /\ x.open = Handler.cc[c].open
        /\ x.good = Handler.cc[c].good /\ x.block = Handler.cc[c].block
        /\ x \in AcceptConn
    BY <1>8, <2>1, Fields
  <2>3. /\ DOMAIN h = Parts /\ h.cc = [Handler.cc EXCEPT ![c] = x]
        /\ h.req = [Handler.req EXCEPT ![r].cmd = "submsg"] /\ h.sc = Handler.sc
        /\ h.idle = Handler.idle /\ h.postA = Handler.postA /\ h.postS = Handler.postS
    BY <1>7, Fields
  <2>4. Arrives(Handler, h, c, n, r, "submsg", x)
    BY <2>1, <2>2, <2>3 DEF Arrives
  <2>5. r \in Req
    BY <1>6, <2>1
  <2>6. /\ HandlerInv(h, {r}, Conn) /\ h.req[r].cmd = "submsg"
        /\ n \notin h.cc[c].parsed + 1..MaxReq
    BY ONLY <1>2, <1>3, <2>4, <2>5, ArriveKeeps
  <2> QED BY <2>1, <2>6
<1> HIDE DEF r
<1>10. Answers(h, g, r, "data")
  BY <1>6, <1>9, HandleResponseAnswers DEF HandlerInv, Response
<1> HIDE DEF g
<1>11. HandlerInv(g, {r} \ {r}, Conn)
  BY <1>6, <1>9, <1>10, AnswersKeep DEF Response, Blocking
<1>12. {r} \ {r} = {}
  OBVIOUS
<1> QED BY <1>1, <1>11, <1>12, BecomesHeld

\* A client goes wrong.
LEMMA ClientErrorHeld ==
    ASSUME Held, NEW c \in Client, ClientError(c)
    PROVE  Held'
<1> DEFINE x == [cc[c] EXCEPT !.good = FALSE]
           h == [Handler EXCEPT !.cc[c].good = FALSE]
           g == PostA(h, c, "Error")
<1>1. Becomes(g)
  BY DEF ClientError
<1>2. HandlerInv(Handler, {}, Conn) /\ State(Handler)
  BY DEF Held, HandlerInv
<1>3. cc[c] \in AcceptConn /\ cc \in [Client -> AcceptConn] /\ postA \in Seq(Client)
  BY <1>2, Fields DEF State
<1>4. /\ DOMAIN h = Parts /\ h.cc = [cc EXCEPT ![c] = x]
      /\ h.req = req /\ h.sc = sc /\ h.idle = idle /\ h.postA = postA /\ h.postS = postS
  BY <1>3 DEF Handler, Parts
<1>5. /\ x \in AcceptConn /\ x.open = cc[c].open /\ ~x.good /\ x.requests = cc[c].requests
      /\ x.block = cc[c].block /\ x.parsed = cc[c].parsed /\ x.messages = cc[c].messages
  BY <1>3 DEF AcceptConn
<1> HIDE DEF h, x
<1>6. 0 \in 0..Len(cc[c].requests)
  BY <1>3, RequestsAre
<1>7. HandlerInv(h, {}, Conn)
  <2>1. /\ x \in AcceptConn /\ x.open = Handler.cc[c].open /\ ~x.good
        /\ x.requests = Handler.cc[c].requests /\ x.block = Handler.cc[c].block
        /\ x.parsed = Handler.cc[c].parsed /\ x.messages = Handler.cc[c].messages
        /\ 0 \in 0..Len(Handler.cc[c].requests)
    BY <1>5, <1>6, Fields
  <2>2. /\ DOMAIN h = Parts /\ h.cc = [Handler.cc EXCEPT ![c] = x]
        /\ h.req = Handler.req /\ h.sc = Handler.sc
        /\ h.idle = Handler.idle /\ h.postA \in Seq(Client) /\ h.postS = Handler.postS
    BY <1>3, <1>4, Fields
  <2> QED BY <1>2, <2>1, <2>2, DropKeeps
<1>8. Frame(h, g)
  BY <1>7, PostAFrame DEF HandlerInv, Event
<1> HIDE DEF g
<1> QED BY <1>1, <1>7, <1>8, FrameKeeps, BecomesHeld

\* A connection goes wrong.
LEMMA ServerErrorHeld ==
    ASSUME Held, NEW k \in Conn, ServerError(k)
    PROVE  Held'
<1> DEFINE h == [Handler EXCEPT !.sc[k].good = FALSE]
           g == PostS(h, k, "Error")
<1>1. Becomes(g)
  BY DEF ServerError
<1>2. HandlerInv(Handler, {}, Conn) /\ State(Handler) /\ GoodOpen(Handler)
  BY DEF Held, HandlerInv
<1>3. HandlerInv(h, {}, Conn)
  BY <1>2, BadGets, GetsKeep
<1> HIDE DEF h
<1>4. Frame(h, g)
  BY <1>3, PostSFrame DEF HandlerInv, Event
<1> HIDE DEF g
<1> QED BY <1>1, <1>3, <1>4, FrameKeeps, BecomesHeld

-----------------------------------------------------------------------------
(* What the server answers.                                                *)

Sessions == [multi : BOOLEAN, watch : BOOLEAN, subs : Nat]

\* The server answers something, and its session stays one.
LEMMA ServedIs ==
    ASSUME NEW s \in Sessions, NEW cmd
    PROVE  /\ Served(s, cmd)[1] \in {"ok", "data", "queued", "err", "sub", "unsub"}
           /\ Served(s, cmd)[2] \in Sessions
<1>1. s.subs \in Nat
  BY DEF Sessions
<1>2. s.subs + 1 \in Nat /\ Minus(s.subs, 1) \in Nat
  BY <1>1 DEF Minus
<1>3. Clean \in Sessions
  BY DEF Clean, Sessions
<1> DEFINE v == Served(s, cmd)
           s1 == [s EXCEPT !.subs = @ + 1]
           s2 == [s EXCEPT !.subs = Minus(@, 1)]
           s3 == [s EXCEPT !.multi = TRUE]
           s4 == [s EXCEPT !.watch = TRUE]
           s5 == [s EXCEPT !.watch = FALSE]
<1>4. s1 \in Sessions /\ s2 \in Sessions /\ s3 \in Sessions /\ s4 \in Sessions /\ s5 \in Sessions
  BY <1>2 DEF Sessions
<1>5. v \in {<<"queued", s>>, <<"err", s>>, <<"data", Clean>>, <<"ok", Clean>>,
             <<"sub", s1>>, <<"unsub", s2>>, <<"ok", s3>>, <<"ok", s4>>, <<"ok", s5>>,
             <<"data", s>>}
  BY DEF Served
<1>6. \A u \in {"ok", "data", "queued", "err", "sub", "unsub"}, t \in Sessions :
         v = <<u, t>> => /\ v[1] \in {"ok", "data", "queued", "err", "sub", "unsub"}
                         /\ v[2] \in Sessions
  OBVIOUS
<1> HIDE DEF v, s1, s2, s3, s4, s5
<1>7. /\ v[1] \in {"ok", "data", "queued", "err", "sub", "unsub"}
      /\ v[2] \in Sessions
  BY ONLY <1>3, <1>4, <1>5, <1>6, s \in Sessions
<1> QED BY <1>7 DEF v

\* A client counts its subscriptions.
LEMMA CountedIs ==
    ASSUME NEW x \in AcceptConn, NEW cmd, NEW reply, NEW subs \in Nat
    PROVE  Recounted(x, Counted(x, cmd, reply, subs))
<1> DEFINE y == [x EXCEPT !.pendSub = Minus(@, 1)]
           z == [y EXCEPT !.sub = subs]
<1>1. Recounted(x, x) /\ Recounted(x, y)
  BY CountersChange
<1>2. Recounted(x, [x EXCEPT !.sub = subs])
  BY DEF Recounted, SameClient, AcceptConn
<1>3. [x EXCEPT !.pendSub = Minus(@, 1), !.sub = subs] = z
  OBVIOUS
<1>4. Counted(x, cmd, reply, subs) \in {x, y, z, [x EXCEPT !.sub = subs]}
  BY <1>3 DEF Counted
<1> HIDE DEF y
<1>5. Recounted(x, z)
  BY <1>1 DEF Recounted, SameClient, AcceptConn
<1> QED BY <1>1, <1>2, <1>4, <1>5

\* A request is taken off the requests that were sent.
LEMMA TailKeeps ==
    ASSUME NEW h, HandlerInv(h, {}, Conn), NEW k \in Conn, h.sc[k].sent # <<>>,
           NEW r, r = Head(h.sc[k].sent), NEW g, g = [h EXCEPT !.sc[k].sent = Tail(@)]
    PROVE  /\ HandlerInv(g, {r}, Conn) /\ r \in Req /\ r[1] \in Client
           /\ g.req[r].delivered /\ r[2] \notin g.cc[r[1]].parsed + 1..MaxReq
<1> DEFINE q == h.sc[k].sent
           u == Tail(q)
           y == [h.sc[k] EXCEPT !.sent = u]
<1>1. State(h) /\ h.sc[k] \in ConnectConn /\ h.sc \in [Conn -> ConnectConn]
  BY DEF HandlerInv, State
<1>2. q \in Seq(Req) /\ q # <<>>
  BY <1>1 DEF ConnectConn
<1>3. /\ r \in Req /\ Tail(q) \in Seq(Req) /\ Contains(q, r)
      /\ \A s \in Req : Contains(q, s) => s = r \/ Contains(Tail(q), s)
      /\ \A s \in Req : Contains(Tail(q), s) => Contains(q, s)
  <2>1. r = Head(q)
    OBVIOUS
  <2> HIDE DEF q
  <2>2. /\ DOMAIN q = 1..Len(q) /\ Len(q) \in Nat /\ Len(q) # 0 /\ Tail(q) \in Seq(Req)
        /\ Len(Tail(q)) = Len(q) - 1 /\ DOMAIN Tail(q) = 1..Len(q) - 1
        /\ \A i \in 1..Len(q) - 1 : Tail(q)[i] = q[i + 1]
        /\ r = q[1] /\ r \in Req
    BY <1>2, <2>1
  <2>3. /\ 1 \in 1..Len(q) /\ \A i \in 1..Len(q) - 1 : i + 1 \in 1..Len(q)
        /\ \A i \in 1..Len(q) : i = 1 \/ (i - 1 \in 1..Len(q) - 1 /\ (i - 1) + 1 = i)
    BY <2>2
  <2>4. \A i \in 1..Len(q) : q[i] = r \/ \E j \in 1..Len(q) - 1 : Tail(q)[j] = q[i]
    BY ONLY <2>2, <2>3
  <2> QED BY ONLY <2>2, <2>3, <2>4 DEF Contains
<1>4. /\ DOMAIN g = Parts /\ g.cc = h.cc /\ g.req = h.req /\ g.idle = h.idle
      /\ g.postS = h.postS /\ g.postA = h.postA
      /\ g.sc = [h.sc EXCEPT ![k] = y]
  BY <1>1 DEF State, Parts
<1>5. /\ y \in ConnectConn /\ y.link = h.sc[k].link /\ y.good = h.sc[k].good
      /\ y.send = h.sc[k].send /\ y.sent = u
  <2>1. u \in Seq(Req)
    BY <1>3
  <2> HIDE DEF u
  <2> QED BY <1>1, <2>1 DEF ConnectConn
<1> HIDE DEF y, q, u
<1>6. \A j \in Conn : g.sc[j] = IF j = k THEN y ELSE h.sc[j]
  BY <1>1, <1>4
<1>7. State(g) /\ SameClients(h, g) /\ SameBlocks(h, g)
  BY ONLY <1>1, <1>4, <1>5 DEF State, SameClients, SameBlocks, SameClient
<1>8. \A j \in Conn : g.sc[j].link = h.sc[j].link /\ g.sc[j].good = h.sc[j].good
  BY <1>5, <1>6
<1>9. GoodOpen(g)
  BY <1>8 DEF HandlerInv, GoodOpen, Open
<1>10. \A j \in Conn, s \in Req : /\ Has(g, j, s) => Has(h, j, s)
                                  /\ Has(h, j, s) => s = r \/ Has(g, j, s)
  BY <1>3, <1>5, <1>6 DEF Has, q, u
<1>11. \A j \in Conn, s \in Req : Has(g, j, s) => h.req[s].delivered
  BY <1>10 DEF HandlerInv, Delivered
<1>12. \A d \in Client, s \in Req : Waits(g, d, s) = Waits(h, d, s)
  BY <1>4 DEF Waits
<1>13. Kept(g, {r}, Conn)
  BY <1>8, <1>10, <1>12 DEF HandlerInv, Kept, Open
<1>14. HandlerInv(g, {r}, Conn)
  BY <1>4, <1>7, <1>9, <1>11, <1>13, ConnsKeep
<1>15. h.req[r].delivered
  BY <1>3 DEF HandlerInv, Delivered, Has, q
<1>16. r[1] \in Client
  BY <1>3 DEF Req
<1>17. r[2] \notin h.cc[r[1]].parsed + 1..MaxReq
  BY <1>3, <1>15 DEF HandlerInv, Unread
<1> QED BY ONLY <1>3, <1>4, <1>14, <1>15, <1>16, <1>17

\* A response is read.
LEMMA ReadReplyHeld ==
    ASSUME Held, session \in [Conn -> Sessions], NEW k \in Conn, ReadReply(k)
    PROVE  Held' /\ session' \in [Conn -> Sessions]
<1> DEFINE r == Head(sc[k].sent)
           c == sc[k].acc
           cmd == req[r].cmd
<1>1. PICK a \in {Served(session[k], cmd)}
                   \cup {<<"err", session[k]>> : i \in Refusable \cap {cmd}} :
         LET res == IF a[1] \in {"sub", "unsub"} THEN "data" ELSE a[1]
             h == IF c # None /\ InSub(cc[c])
                  THEN [Handler EXCEPT !.cc[c] = Counted(@, cmd, a[1], a[2].subs)]
                  ELSE Handler
         IN /\ session' = [session EXCEPT ![k] = a[2]]
            /\ Becomes(HandleResponse([h EXCEPT !.sc[k].sent = Tail(@)], k, r, res))
  BY DEF ReadReply
<1> DEFINE res == IF a[1] \in {"sub", "unsub"} THEN "data" ELSE a[1]
           x == Counted(cc[c], cmd, a[1], a[2].subs)
           b == [Handler EXCEPT !.cc[c] = Counted(@, cmd, a[1], a[2].subs)]
           h == IF c # None /\ InSub(cc[c]) THEN b ELSE Handler
           t == [h EXCEPT !.sc[k].sent = Tail(@)]
           g == HandleResponse(t, k, r, res)
<1>2. session' = [session EXCEPT ![k] = a[2]] /\ Becomes(g) /\ sc[k].sent # <<>>
  BY <1>1 DEF ReadReply
<1>3. HandlerInv(Handler, {}, Conn) /\ State(Handler)
  BY DEF Held, HandlerInv
<1>4. cc \in [Client -> AcceptConn] /\ c \in Client \cup {None} /\ sc[k] \in ConnectConn
  BY <1>3, Fields DEF State, ConnectConn
<1> HIDE DEF r, c, cmd
<1>5. a[1] \in {"ok", "data", "queued", "err", "sub", "unsub"} /\ a[2] \in Sessions
  <2>1. session[k] \in Sessions
    OBVIOUS
  <2> QED BY <2>1, ServedIs
<1>6. res \in Response /\ a[2].subs \in Nat
  BY <1>5 DEF Response, Sessions
<1> HIDE DEF res
<1>7. session' \in [Conn -> Sessions]
  BY <1>2, <1>5
<1>8. Frame(Handler, h)
  <2>1. CASE c \in Client
    <3>1. Recounted(cc[c], x)
      BY <1>4, <1>6, <2>1, CountedIs
    <3>2. /\ DOMAIN b = Parts /\ b.cc = [cc EXCEPT ![c] = x] /\ b.req = req /\ b.sc = sc
          /\ b.idle = idle /\ b.postA = postA /\ b.postS = postS
      BY <1>4, <2>1 DEF Handler, Parts
    <3> HIDE DEF b, x
    <3>3. Frame(Handler, b)
      <4>1. /\ b.cc = [Handler.cc EXCEPT ![c] = x] /\ SameClient(Handler.cc[c], x)
            /\ x.block = Handler.cc[c].block /\ b.sc = Handler.sc /\ b.req = Handler.req
            /\ b.idle \in List /\ b.postS \in List /\ b.postA \in Seq(Client)
            /\ Handler.postA # <<>> => b.postA # <<>>
        BY <1>3, <3>1, <3>2, Fields DEF Recounted, State
      <4> QED BY <1>3, <2>1, <3>2, <4>1, FrameClient
    <3> QED BY <1>3, <3>3, FrameSame
  <2>2. CASE c = None
    BY <1>3, <2>2, FrameSame
  <2> QED BY <1>4, <2>1, <2>2
<1>9. HandlerInv(h, {}, Conn)
  BY <1>3, <1>8, FrameKeeps
<1>10. h.sc[k].sent = sc[k].sent
  BY <1>8, Fields DEF Frame, SameConns, SameConn
<1> HIDE DEF h
<1>11. /\ HandlerInv(t, {r}, Conn) /\ r \in Req /\ r[1] \in Client
       /\ t.req[r].delivered /\ r[2] \notin t.cc[r[1]].parsed + 1..MaxReq
  BY <1>2, <1>9, <1>10, TailKeeps DEF r
<1> HIDE DEF t
<1>12. Answers(t, g, r, res)
  BY <1>6, <1>11, HandleResponseAnswers DEF HandlerInv
<1> HIDE DEF g
<1>13. HandlerInv(g, {r} \ {r}, Conn)
  BY <1>6, <1>11, <1>12, AnswersKeep
<1>14. {r} \ {r} = {}
  OBVIOUS
<1> QED BY <1>2, <1>7, <1>13, <1>14, BecomesHeld

-----------------------------------------------------------------------------
(* postEvent.                                                              *)

\* The events of a connection are taken ...
LEMMA ConnTaken ==
    ASSUME NEW h, State(h), NEW k \in Conn
    PROVE  Frame(h, [h EXCEPT !.sc[k].post = {}])
<1> DEFINE g == [h EXCEPT !.sc[k].post = {}]
           y == [h.sc[k] EXCEPT !.post = {}]
<1>1. h.sc[k] \in ConnectConn
  BY DEF State
<1>2. /\ DOMAIN g = Parts
      /\ g.cc = h.cc /\ g.req = h.req /\ g.postA = h.postA
      /\ g.idle = h.idle /\ g.postS = h.postS
      /\ g.sc = [h.sc EXCEPT ![k] = y]
  BY <1>1 DEF State, Parts
<1>3. SameConn(h.sc[k], y)
  BY <1>1 DEF ConnectConn, SameConn
<1> HIDE DEF g, y
<1>4. Frame(h, g)
  BY <1>2, <1>3, FrameConn DEF State
<1> QED BY <1>4 DEF g

\* ... and those of a client.
LEMMA ClientTaken ==
    ASSUME NEW h, State(h), NEW c \in Client
    PROVE  Frame(h, [h EXCEPT !.cc[c].post = {}])
<1> DEFINE g == [h EXCEPT !.cc[c].post = {}]
           x == [h.cc[c] EXCEPT !.post = {}]
<1>1. h.cc[c] \in AcceptConn
  BY DEF State
<1>2. /\ DOMAIN g = Parts
      /\ g.sc = h.sc /\ g.req = h.req /\ g.postA = h.postA
      /\ g.idle = h.idle /\ g.postS = h.postS
      /\ g.cc = [h.cc EXCEPT ![c] = x]
  BY <1>1 DEF State, Parts
<1>3. SameClient(h.cc[c], x) /\ x.block = h.cc[c].block
  BY <1>1 DEF AcceptConn, SameClient
<1> HIDE DEF g, x
<1>4. Frame(h, g)
  BY <1>2, <1>3, FrameClient DEF State
<1> QED BY <1>4 DEF g

\* A connection is written or closed.
LEMMA PostConnectHeld ==
    ASSUME Held, session \in [Conn -> Sessions], PostConnect
    PROVE  Held' /\ session' \in [Conn -> Sessions]
<1> DEFINE k == postS.head
           evts == sc[k].post
           p == PopFront(Handler, "postS")
           h == [p EXCEPT !.sc[k].post = {}]
           written == IF sc[k].good /\ evts = {"Write"} THEN Write(h, k) ELSE h
           close == (~sc[k].good \/ "Error" \in evts) /\ Open(sc[k])
           g == IF close THEN Close(written, k) ELSE written
<1>1. /\ k # None /\ Becomes(g)
      /\ session' = IF close THEN [session EXCEPT ![k] = Clean] ELSE session
  BY DEF PostConnect
<1>2. HandlerInv(Handler, {}, Conn) /\ State(Handler)
  BY DEF Held, HandlerInv
<1>3. k \in Conn /\ sc \in [Conn -> ConnectConn]
  BY <1>1, <1>2, Fields DEF State, List
<1>4. Handler["postS"].head \in Conn
  BY <1>3 DEF Handler
<1> HIDE DEF k
<1>5. session' \in [Conn -> Sessions]
  <2>1. Clean \in Sessions
    BY DEF Clean, Sessions
  <2> QED BY <1>1, <2>1
<1>6. Frame(Handler, p)
  BY <1>2, <1>4, PopFrontFrame
<1> HIDE DEF p
<1>7. Frame(p, h)
  BY <1>3, <1>6, ConnTaken DEF Frame
<1> HIDE DEF h
<1>8. Frame(Handler, h)
  BY <1>6, <1>7, FrameTrans
<1>9. HandlerInv(h, {}, Conn) /\ h.sc[k].good = sc[k].good
  <2>1. HandlerInv(h, {}, Conn)
    BY <1>2, <1>8, FrameKeeps
  <2>2. h.sc[k].good = sc[k].good
    BY <1>3, <1>8, Fields DEF Frame, SameConns, SameConn
  <2> QED BY <2>1, <2>2
<1>10. HandlerInv(written, {}, Conn)
  BY <1>3, <1>9, WriteKeeps
<1> HIDE DEF written
<1>11. HandlerInv(g, {}, Conn)
  BY <1>3, <1>10, CloseKeeps
<1> HIDE DEF g
<1> QED BY <1>1, <1>5, <1>11, BecomesHeld

\* The list of clients has no part in the invariant.
LEMMA SameKeeps ==
    ASSUME NEW h, HandlerInv(h, {}, Conn), NEW g, State(g), g.cc = h.cc, g.sc = h.sc,
           g.req = h.req
    PROVE  HandlerInv(g, {}, Conn)
<1>1. \A k \in Conn, r \in Req : Has(g, k, r) = Has(h, k, r)
  BY DEF Has
<1>2. \A c \in Client, r \in Req : Waits(g, c, r) = Waits(h, c, r)
  BY DEF Waits
<1>3. Own(g) /\ Unread(g)
  BY DEF HandlerInv, Own, Unread
<1>4. Delivered(g) /\ GoodOpen(g)
  BY <1>1 DEF HandlerInv, Delivered, GoodOpen
<1>5. BlockedOK(g)
  BY <1>2 DEF HandlerInv, BlockedOK
<1>6. Kept(g, {}, Conn)
  BY <1>1, <1>2 DEF HandlerInv, Kept
<1> QED BY <1>3, <1>4, <1>5, <1>6 DEF HandlerInv

\* A client is written or closed.
LEMMA PostAcceptHeld ==
    ASSUME Held, PostAccept
    PROVE  Held'
<1> DEFINE c == Head(postA)
           evts == cc[c].post
           h == [Handler EXCEPT !.cc[c].post = {}]
           n == Ready(h, c)
           write == cc[c].good /\ "Write" \in evts
<1>1. PICK g \in IF write THEN DeliverHeld(h, c) ELSE {h} :
        LET written == IF write THEN Shown(g, c, n) ELSE g
            closed == IF (~cc[c].good \/ "Error" \in evts) /\ cc[c].open
                      THEN CloseClient(written, c) ELSE written
        IN Becomes([closed EXCEPT !.postA = Tail(@)])
  BY DEF PostAccept
<1> DEFINE written == IF write THEN Shown(g, c, n) ELSE g
           closed == IF (~cc[c].good \/ "Error" \in evts) /\ cc[c].open
                     THEN CloseClient(written, c) ELSE written
           done == [closed EXCEPT !.postA = Tail(@)]
<1>2. Becomes(done) /\ postA # <<>>
  BY <1>1 DEF PostAccept
<1>3. HandlerInv(Handler, {}, Conn) /\ State(Handler)
  BY DEF Held, HandlerInv
<1>4. postA \in Seq(Client)
  BY <1>3, Fields DEF State
<1>5. c \in Client
  <2>1. postA # <<>>
    BY ONLY <1>2
  <2> QED BY ONLY <1>4, <2>1
<1> HIDE DEF c
<1>6. Frame(Handler, h)
  BY <1>3, <1>5, ClientTaken
<1> HIDE DEF h
<1>7. HandlerInv(h, {}, Conn) /\ h.postA # <<>>
  BY <1>2, <1>3, <1>6, FrameKeeps, Fields DEF Frame, SameClients
<1>8. /\ n \in 0..Len(h.cc[c].requests) /\ n = Ready(h, c)
      /\ \A i \in 1..n : h.req[h.cc[c].requests[i]].res # "none"
  BY <1>5, <1>7, ReadyIs DEF HandlerInv
<1> HIDE DEF n, write
<1>9. /\ HandlerInv(g, {}, Conn) /\ g.postA # <<>>
      /\ g.cc[c].requests = h.cc[c].requests
      /\ \A i \in 1..n : g.req[g.cc[c].requests[i]].res # "none"
  <2>1. CASE write
    <3>1. /\ HandlerInv(g, {}, Conn) /\ SameClients(h, g)
          /\ \A i \in 1..n : g.req[h.cc[c].requests[i]].res # "none"
      BY <1>1, <1>5, <1>7, <1>8, <2>1, DeliverHeldKeeps
    <3>2. g.cc[c].requests = h.cc[c].requests /\ g.postA # <<>>
      BY <1>5, <1>7, <3>1 DEF SameClients, SameClient
    <3> QED BY <3>1, <3>2
  <2>2. CASE ~write
    BY <1>1, <1>7, <1>8, <2>2
  <2> QED BY <2>1, <2>2
<1>10. HandlerInv(written, {}, Conn) /\ written.postA # <<>>
  BY <1>5, <1>8, <1>9, ShownKeeps
<1> HIDE DEF written
<1>11. HandlerInv(closed, {}, Conn) /\ closed.postA # <<>>
  BY <1>5, <1>10, CloseClientKeeps
<1> HIDE DEF closed
<1>12. HandlerInv(done, {}, Conn)
  <2>1. State(closed) /\ GoodOpen(closed) /\ closed.postA \in Seq(Client)
    BY <1>11 DEF HandlerInv, State
  <2>2. Tail(closed.postA) \in Seq(Client)
    BY <1>11, <2>1
  <2>3. /\ DOMAIN done = Parts /\ done.cc = closed.cc /\ done.sc = closed.sc
        /\ done.idle = closed.idle /\ done.req = closed.req /\ done.postS = closed.postS
        /\ done.postA = Tail(closed.postA)
    BY <2>1 DEF State, Parts
  <2> HIDE DEF done
  <2>4. State(done)
    BY <2>1, <2>2, <2>3 DEF State
  <2> QED BY <1>11, <2>3, <2>4, SameKeeps
<1> HIDE DEF done
<1> QED BY <1>2, <1>12, BecomesHeld

-----------------------------------------------------------------------------
(* The theorems.                                                           *)

\* What holds between the steps of the handler.
SessionInv ==
    /\ Held
    /\ pc \in {"wait", "postS", "postA"}
    /\ session \in [Conn -> Sessions]

\* It holds at the start ...
LEMMA InitSession ==
    ASSUME Init
    PROVE  SessionInv
<1> USE SessionAssumption
<1>1. State(Handler)
  <2>1. 0 \in 0..MaxReq /\ 0 \in 0..MaxMsg
    OBVIOUS
  <2>2. <<>> \in Seq(Req) /\ <<>> \in Seq(Client)
    OBVIOUS
  <2>3. cc \in [Client -> AcceptConn]
    BY <2>1, <2>2 DEF Init, AcceptConn
  <2>4. sc \in [Conn -> ConnectConn]
    BY <2>2 DEF Init, ConnectConn
  <2>5. idle \in List /\ postS \in List
    BY DEF Init, List
  <2>6. req \in [Req -> Request]
    BY DEF Init, Request
  <2>7. postA \in Seq(Client)
    BY <2>2 DEF Init
  <2> QED BY <2>3, <2>4, <2>5, <2>6, <2>7, Fields DEF State
<1>2. /\ \A c \in Client : cc[c].requests = <<>> /\ ~cc[c].block
      /\ \A k \in Conn : sc[k].send = <<>> /\ sc[k].sent = <<>> /\ ~sc[k].good
      /\ \A r \in Req : ~req[r].delivered /\ req[r].res = "none"
  BY DEF Init
<1>3. \A q : q = <<>> => DOMAIN q = {} /\ \A r : ~Contains(q, r)
  BY DEF Contains
<1>4. Own(Handler) /\ Unread(Handler)
  BY <1>2, <1>3, Fields DEF Own, Unread
<1>5. Delivered(Handler) /\ GoodOpen(Handler)
  BY <1>2, <1>3, Fields DEF Delivered, GoodOpen, Has
<1>6. BlockedOK(Handler) /\ Kept(Handler, {}, Conn)
  BY <1>2, <1>3, Fields DEF BlockedOK, Kept, Waits
<1>7. session \in [Conn -> Sessions]
  BY DEF Init, Sessions, Clean
<1>8. pc = "wait"
  BY DEF Init
<1> QED BY <1>1, <1>4, <1>5, <1>6, <1>7, <1>8 DEF SessionInv, Held, HandlerInv

\* ... a step in which the handler does nothing keeps it ...
LEMMA SameHeld ==
    ASSUME Held, UNCHANGED <<cc, sc, idle, req, postA, postS>>
    PROVE  Held'
<1>1. Becomes(Handler)
  BY Fields DEF Becomes
<1> QED BY <1>1, BecomesHeld DEF Held

\* ... and so does every other.
LEMMA NextSession ==
    ASSUME SessionInv, [Next]_vars
    PROVE  SessionInv'
<1> USE DEF SessionInv
<1>1. ASSUME NEW c \in Client, NEW cmd \in Uses[c], Read(c, cmd) PROVE SessionInv'
  BY <1>1, ReadHeld DEF Read
<1>2. ASSUME NEW c \in Client, ClientError(c) PROVE SessionInv'
  BY <1>2, ClientErrorHeld DEF ClientError
<1>3. ASSUME NEW k \in Conn, ServerError(k) PROVE SessionInv'
  BY <1>3, ServerErrorHeld DEF ServerError
<1>4. ASSUME NEW k \in Conn, ReadReply(k) PROVE SessionInv'
  BY <1>4, ReadReplyHeld DEF ReadReply
<1>5. ASSUME NEW k \in Conn, ReadMessage(k) PROVE SessionInv'
  BY <1>5, ReadMessageHeld DEF ReadMessage
<1>6. CASE EndWait
  BY <1>6, SameHeld DEF EndWait
<1>7. CASE PostConnect
  <2>1. pc' \in {"wait", "postS", "postA"}
    BY <1>7 DEF PostConnect
  <2> QED BY <1>7, <2>1, PostConnectHeld
<1>8. CASE PostAccept
  <2>1. pc' \in {"wait", "postS", "postA"} /\ session' = session
    BY <1>8 DEF PostAccept
  <2> QED BY <1>8, <2>1, PostAcceptHeld
<1>9. CASE UNCHANGED vars
  BY <1>9, SameHeld DEF vars
<1> QED BY <1>1, <1>2, <1>3, <1>4, <1>5, <1>6, <1>7, <1>8, <1>9 DEF Next

\* However many clients and private connections there are, whichever commands
\* the clients use and whatever is refused or fails, the invariant of the handler
\* holds between its steps.
THEOREM SessionInvariant == Spec => []SessionInv
<1>1. Init => SessionInv
  BY InitSession
<1>2. SessionInv /\ [Next]_vars => SessionInv'
  BY NextSession
<1> QED BY <1>1, <1>2, PTL DEF Spec

\* The counters of Transaction and Subscribe never fall below zero, and every
\* part of the handler is what it is declared to be.
THEOREM TypeOKAlways == Spec => []TypeOK
<1>1. SessionInv => TypeOK
  BY Fields DEF SessionInv, Held, HandlerInv, State, TypeOK, Sessions
<1> QED BY <1>1, SessionInvariant, PTL

\* A request that was delivered and has no answer waits on an open connection: no
\* path through getConnectConnection, close() or the refusals drops one.
THEOREM NotLostAlways == Spec => []NotLost
<1>1. ASSUME SessionInv PROVE NotLost
  <2>1. HandlerInv(Handler, {}, Conn)
    BY <1>1 DEF SessionInv, Held
  <2>2. /\ cc \in [Client -> AcceptConn] /\ sc \in [Conn -> ConnectConn]
        /\ Kept(Handler, {}, Conn)
    BY <2>1, Fields DEF HandlerInv, State
  <2> SUFFICES ASSUME NEW c \in Client, NEW i \in DOMAIN cc[c].requests,
                      cc[c].open, cc[c].good, req[cc[c].requests[i]].delivered,
                      req[cc[c].requests[i]].res = "none"
               PROVE  \E k \in Conn : /\ Open(sc[k])
                                      /\ Contains(sc[k].sent \o sc[k].send, cc[c].requests[i])
    BY DEF NotLost
  <2> DEFINE r == cc[c].requests[i]
  <2>3. r \in Req /\ Contains(cc[c].requests, r)
    <3> DEFINE q == cc[c].requests
    <3>1. q \in Seq(Req)
      BY <2>2, RequestsAre
    <3> HIDE DEF q
    <3>2. \A j \in DOMAIN q : q[j] \in Req /\ j \in 1..Len(q)
      BY <3>1
    <3>3. \A j \in DOMAIN q : Contains(q, q[j])
      BY <3>2 DEF Contains
    <3> QED BY <3>2, <3>3 DEF q
  <2> HIDE DEF r
  <2>4. Waits(Handler, c, r)
    BY <2>3, Fields DEF Waits, r
  <2>5. PICK k \in Conn : Open(Handler.sc[k]) /\ Has(Handler, k, r)
    BY <2>2, <2>3, <2>4 DEF Kept
  <2>6. sc[k].sent \in Seq(Req) /\ sc[k].send \in Seq(Req)
    BY <2>2 DEF ConnectConn
  <2>7. Contains(sc[k].sent \o sc[k].send, r)
    BY <2>5, <2>6, BothContain, Fields DEF Has
  <2> QED BY <2>5, <2>7, Fields DEF r
<1> QED BY <1>1, SessionInvariant, PTL

\* A blocked client waits for the answer to one of its requests, so that the
\* answer unblocks it: setBlockRequest(true) is never left behind.
THEOREM BlockedByRequestAlways == Spec => []BlockedByRequest
<1>1. ASSUME SessionInv PROVE BlockedByRequest
  <2>1. HandlerInv(Handler, {}, Conn)
    BY <1>1 DEF SessionInv, Held
  <2>2. cc \in [Client -> AcceptConn] /\ BlockedOK(Handler)
    BY <2>1, Fields DEF HandlerInv, State
  <2> SUFFICES ASSUME NEW c \in Client, cc[c].open, cc[c].good, cc[c].block
               PROVE  \E i \in DOMAIN cc[c].requests :
                         LET r == cc[c].requests[i] IN
                           req[r].delivered /\ req[r].res = "none" /\ req[r].cmd \in Blocking
    BY DEF BlockedByRequest
  <2>3. PICK r \in Req : Waits(Handler, c, r) /\ Handler.req[r].cmd \in Blocking
    BY <2>2, Fields DEF BlockedOK
  <2>4. /\ Contains(cc[c].requests, r) /\ req[r].delivered /\ req[r].res = "none"
        /\ req[r].cmd \in Blocking
    BY <2>3, Fields DEF Waits
  <2>5. PICK i \in DOMAIN cc[c].requests : cc[c].requests[i] = r
    <3> DEFINE q == cc[c].requests
    <3>1. q \in Seq(Req)
      BY <2>2, RequestsAre
    <3> HIDE DEF q
    <3>2. Contains(q, r) => \E j \in DOMAIN q : q[j] = r
      BY <3>1 DEF Contains
    <3> QED BY <2>4, <3>2 DEF q
  <2> QED BY <2>4, <2>5
<1> QED BY <1>1, SessionInvariant, PTL
=============================================================================
