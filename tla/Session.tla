------------------------------ MODULE Session ------------------------------
(***************************************************************************)
(* What a client keeps on a server: transactions, subscriptions and        *)
(* blocking commands.                                                      *)
(*                                                                         *)
(* WATCH, MULTI, SUBSCRIBE and BLPOP need a connection of their own.  It   *)
(* is taken from the idle private connections of the server when such a    *)
(* request is handled, attached to the client, used for everything the     *)
(* client sends meanwhile, and put back when the counters of the client    *)
(* say that nothing is open on it.  While a request whose response may     *)
(* change that is under way (BLPOP, UNWATCH, EXEC, DISCARD, UNSUBSCRIBE)   *)
(* the client is blocked: its requests are read and held back, and         *)
(* delivered when its answers are written.                                 *)
(*                                                                         *)
(* One handler, one server, its shared connection and its private ones.    *)
(* Pipeline models what happens to any connection (setting up, partial     *)
(* writes, timeouts, redirections); here a connection is set up when it is *)
(* opened, takes all it is written, and its server has received exactly    *)
(* the requests in sent, as Pipeline's Matched says.                       *)
(*                                                                         *)
(* The idle connections and those with events are kept in lists that run   *)
(* through the connections (List.h), and both through the same link.       *)
(***************************************************************************)
EXTENDS Integers, FiniteSets, SequencesExt

CONSTANTS
    Client,         \* the clients of the handler
    Private,        \* bound: the private connections it may make
    Shared,         \* the shared connection
    None,           \* no client, or no connection
    MaxReq,         \* bound: how many requests the clients send together
    MaxMsg,         \* bound: how many messages are published to a client
    Uses,           \* the commands that each client uses
    Refusable,      \* those that the server may refuse (it is loading, say)
    Deniable,       \* those that the proxy may refuse (permission())
    ServerFails     \* TRUE: connections fail and cannot be opened

Conn == Private \cup {Shared}

\* The commands: "get" is any that is served on a shared connection, "unknown"
\* a request that does not parse.
Command == {"get", "blpop", "watch", "unwatch", "multi", "exec", "discard",
            "subscribe", "unsubscribe", "unknown"}

\* Where a message that was published to a client is answered it has a number
\* above those of the client's own requests.
Req == Client \X (1..MaxReq + MaxMsg)

ASSUME SessionAssumption ==
    /\ Shared \notin Private
    /\ None \notin Client \cup Private \cup {Shared}
    /\ IsFiniteSet(Client) /\ IsFiniteSet(Private)
    /\ MaxReq \in Nat /\ MaxMsg \in Nat
    /\ Uses \in [Client -> SUBSET Command]
    /\ Refusable \subseteq Command
    /\ Deniable \subseteq Command
    /\ ServerFails \in BOOLEAN

\* Commands with Command::Private.
RequirePrivate == {"blpop", "watch", "multi", "subscribe"}

BlockingExceptExec == {"blpop", "unwatch", "discard", "unsubscribe"}

\* Commands that block the client until they are answered.
Blocking == {"blpop", "unwatch", "exec", "discard", "unsubscribe"}

\* Requests without a body: one that did not parse, and the one that stands for
\* a published message.
Empty == {"unknown", "submsg"}

VARIABLES
    cc,         \* the AcceptConnections
    sc,         \* the ConnectConnections
    idle,       \* mPrivateConns, a list
    req,        \* the requests
    postA,      \* mPostAcceptConns
    postS,      \* mPostConnectConns, a list
    pc,         \* where run() is
    session     \* what the server keeps for each connection

vars == <<cc, sc, idle, req, postA, postS, pc, session>>

Event == {"Write", "Error"}

AcceptConn ==
    [open : BOOLEAN,
     good : BOOLEAN,
     requests : Seq(Req),
     parsed : 0..MaxReq,
     messages : 0..MaxMsg,
     post : SUBSET Event,
     block : BOOLEAN,               \* mBlockRequest
     conn : Conn \cup {None},       \* mConnectConnection
     pendWatch : Nat, watch : Nat,  \* Transaction
     pendMulti : Nat, multi : Nat,
     pendSub : Nat, sub : Nat]      \* Subscribe

ConnectConn ==
    [link : {"none", "closed", "open"},
     good : BOOLEAN,
     send : Seq(Req),
     sent : Seq(Req),
     post : SUBSET Event,
     acc : Client \cup {None},      \* mAcceptConnection
     next : Conn \cup {None}]       \* the link of ListNode

\* A list is empty when its size is 0, whatever it begins with.
List == [head : Conn \cup {None}, tail : Conn \cup {None}, size : Int]

Request ==
    [cmd : Command \cup {"none", "submsg"},
     delivered : BOOLEAN,
     res : {"none", "ok", "data", "queued", "err", "null"}]

\* A Redis connection: in MULTI, with keys watched, with subscriptions.
Clean == [multi |-> FALSE, watch |-> FALSE, subs |-> 0]

\* In particular the counters of the clients never fall below zero.
TypeOK ==
    /\ cc \in [Client -> AcceptConn]
    /\ sc \in [Conn -> ConnectConn]
    /\ idle \in List
    /\ req \in [Req -> Request]
    /\ postA \in Seq(Client)
    /\ postS \in List
    /\ pc \in {"wait", "postS", "postA"}
    /\ session \in [Conn -> [multi : BOOLEAN, watch : BOOLEAN, subs : Nat]]

Init ==
    /\ cc = [c \in Client |->
               [open |-> TRUE, good |-> TRUE, requests |-> <<>>, parsed |-> 0,
                messages |-> 0, post |-> {}, block |-> FALSE, conn |-> None,
                pendWatch |-> 0, watch |-> 0, pendMulti |-> 0, multi |-> 0,
                pendSub |-> 0, sub |-> 0]]
    /\ sc = [k \in Conn |-> [link |-> "none", good |-> FALSE, send |-> <<>>,
                             sent |-> <<>>, post |-> {}, acc |-> None, next |-> None]]
    /\ idle = [head |-> None, tail |-> None, size |-> 0]
    /\ req = [r \in Req |-> [cmd |-> "none", delivered |-> FALSE, res |-> "none"]]
    /\ postA = <<>>
    /\ postS = [head |-> None, tail |-> None, size |-> 0]
    /\ pc = "wait"
    /\ session = [k \in Conn |-> Clean]

-----------------------------------------------------------------------------
(* The operations of the handler call each other: they are written as      *)
(* functions from the state of the handler to the state they leave, or to  *)
(* the set of states they may leave.                                       *)

Handler == [cc |-> cc, sc |-> sc, idle |-> idle, req |-> req,
            postA |-> postA, postS |-> postS]

Becomes(h) ==
    /\ cc' = h.cc
    /\ sc' = h.sc
    /\ idle' = h.idle
    /\ req' = h.req
    /\ postA' = h.postA
    /\ postS' = h.postS

\* push_back: the link of k itself is left as it is.
PushBack(h, list, k) ==
    LET l == h[list]
        linked == IF l.tail = None THEN [h EXCEPT ![list].head = k]
                  ELSE [h EXCEPT !.sc[l.tail].next = k]
    IN [linked EXCEPT ![list].tail = k, ![list].size = @ + 1]

\* pop_front, of a list that begins with a connection.
PopFront(h, list) ==
    LET l == h[list] IN
      [h EXCEPT ![list].head = h.sc[l.head].next,
                ![list].tail = IF l.size = 1 THEN None ELSE @,
                ![list].size = @ - 1,
                !.sc[l.head].next = None]

PostA(h, c, e) ==
    [h EXCEPT !.cc[c].post = @ \cup {e},
              !.postA = IF h.cc[c].post = {} THEN Append(@, c) ELSE @]

PostS(h, k, e) ==
    LET posted == IF h.sc[k].post = {} THEN PushBack(h, "postS", k) ELSE h
    IN [posted EXCEPT !.sc[k].post = @ \cup {e}]

Attach(h, c, k) == [h EXCEPT !.cc[c].conn = k, !.sc[k].acc = c]

Detach(h, c, k) == [h EXCEPT !.cc[c].conn = None, !.sc[k].acc = None]

PutPrivate(h, k) == PushBack(h, "idle", k)

\* (Mutants, operators that differ from the one that follows them by a mistake
\* one could make, are named for the mistake and used by nothing here.)

MinusBelow(n, m) == n - m

Minus(n, m) == IF n > m THEN n - m ELSE 0

\* Transaction and Subscribe.  (The limits of their counters, 4096 and 32000
\* requests under way, are out of reach here.)
InTransaction(x) == x.pendWatch > 0 \/ x.pendMulti > 0

InSub(x) == x.sub > 0 \/ x.pendSub > 0

Unwatch(x) == [x EXCEPT !.pendWatch = Minus(@, x.watch), !.watch = 0]

DecrMulti(x) == [x EXCEPT !.pendMulti = Minus(@, 1), !.multi = Minus(@, 1)]

UnblockedQueue(x, cmd) == [x EXCEPT !.block = @ /\ cmd # "blpop"]

Unblocked(x, cmd) == [x EXCEPT !.block = @ /\ cmd \notin Blocking]

\* What the response of a request changes in its client, in handleResponse's
\* last switch.  A direct response comes from the proxy.
Responded(x, cmd, res, direct) ==
    LET y == Unblocked(x, cmd) IN
      CASE cmd = "unwatch" /\ res = "ok" -> Unwatch(y)
        [] cmd = "watch" /\ res = "ok" -> [y EXCEPT !.watch = @ + 1]
        [] cmd = "watch" /\ res # "ok" -> [y EXCEPT !.pendWatch = Minus(@, 1)]
        [] cmd = "multi" /\ res = "ok" -> [y EXCEPT !.multi = @ + 1]
        [] cmd = "multi" /\ res # "ok" -> [y EXCEPT !.pendMulti = Minus(@, 1)]
        [] cmd \in {"exec", "discard"} /\ y.multi > 0 /\ ~direct -> DecrMulti(Unwatch(y))
        [] cmd = "subscribe" /\ direct -> [y EXCEPT !.pendSub = Minus(@, 1)]
        [] OTHER -> y

\* The client has something open on its connection, or will have.
HoldsTransaction(x) == InTransaction(x)

Holds(x) == InTransaction(x) \/ InSub(x)

\* handleResponse: request r is answered, by connection k or by the proxy
\* (k = None).  A request that its client no longer waits for is ignored.
HandleResponse(h, k, r, res) ==
    LET c == r[1]
        x == h.cc[c]
        cmd == h.req[r].cmd
        answered == [h EXCEPT !.req[r].res = res]
        posted == IF answered.req[Head(x.requests)].res # "none"
                  THEN PostA(answered, c, "Write") ELSE answered
        counted == [posted EXCEPT !.cc[c] = Responded(@, cmd, res, k = None)]
        ended == IF cmd \in {"exec", "discard"} /\ x.multi > 0 /\ k = None
                 THEN PostA(counted, c, "Error") ELSE counted
    IN
      IF ~Contains(x.requests, r) \/ ~x.good THEN h
      ELSE IF k \in Private /\ ~Holds(ended.cc[c])
      THEN Detach(PutPrivate(ended, k), c, k)
      ELSE ended

-----------------------------------------------------------------------------
(* Handling a request.                                                     *)

Open(x) == x.link = "open"

\* Server::fail(): every handler sets and clears that mark, so that each call may
\* find it either way.
Fail == IF ServerFails THEN BOOLEAN ELSE {FALSE}

\* What getting a connection may give: the handler's state then, and the
\* connection or None.
Got(h, k) == [state |-> h, conn |-> k]

\* None, for a server that is found failed.
Unavailable(h) == {Got(h, None) : f \in Fail \cap {TRUE}}

\* What was got is withheld if the server is found failed.
Checked(gets) == UNION {{g} \cup Unavailable(g.state) : g \in gets}

\* Connection k is opened: init() succeeds or, if connections can fail, does not.
OpenConn(h, k) ==
    {Got([h EXCEPT !.sc[k].link = "open", !.sc[k].good = TRUE], k)}
      \cup (IF ServerFails
            THEN {Got([h EXCEPT !.sc[k].link = "closed", !.sc[k].good = FALSE], None)}
            ELSE {})

OpenPrivate(h, k) ==
    {IF g.conn = None THEN Got(PutPrivate(g.state, k), None) ELSE g : g \in OpenConn(h, k)}

\* getShareConnection: a connection that was never made is opened even for a
\* failed server.
GetShare(h) ==
    IF Open(h.sc[Shared]) THEN Checked({Got(h, Shared)})
    ELSE (IF h.sc[Shared].link = "closed" THEN Unavailable(h) ELSE {})
           \cup Checked(OpenConn(h, Shared))

\* getPrivateConnection: an idle connection that was taken is not put back if the
\* server is found failed.
GetPrivate(h) ==
    LET k == h.idle.head
        unmade == {p \in Private : h.sc[p].link = "none"}
        taken == PopFront(h, "idle")
    IN
      IF k = None THEN Unavailable(h) \cup Checked(UNION {OpenPrivate(h, p) : p \in unmade})
      ELSE IF Open(h.sc[k]) THEN Checked({Got(taken, k)})
      ELSE Unavailable(taken) \cup Checked(OpenPrivate(taken, k))

\* getConnectConnection: the attached connection comes first.
GetConnection(h, c, cmd) ==
    IF h.cc[c].conn # None THEN {Got(h, h.cc[c].conn)}
    ELSE IF cmd \in RequirePrivate THEN GetPrivate(h)
    ELSE GetShare(h)

\* postHandleRequest: the client is attached to connection k, or blocked, and
\* what it has under way is counted.
PostHandle(h, r, k) ==
    LET c == r[1]
        cmd == h.req[r].cmd
        blocked == IF cmd \in Blocking THEN [h EXCEPT !.cc[c].block = TRUE] ELSE h
        counted == CASE cmd = "watch" -> [blocked EXCEPT !.cc[c].pendWatch = @ + 1]
                     [] cmd = "multi" -> [blocked EXCEPT !.cc[c].pendMulti = @ + 1]
                     [] cmd = "subscribe" -> [blocked EXCEPT !.cc[c].pendSub = @ + 1]
                     [] OTHER -> blocked
    IN IF cmd \in RequirePrivate THEN Attach(counted, c, k) ELSE counted

\* handleRequest: nothing is done for a blocked client; otherwise the request is
\* refused by the proxy, or queued on a connection.
HandleRequest(h, r) ==
    LET c == r[1]
        cmd == h.req[r].cmd
        x == h.cc[c]
        delivered == [h EXCEPT !.req[r].delivered = TRUE]
        refused == HandleResponse(delivered, None, r, "err")
    IN
      IF x.block THEN {h}
      ELSE {refused : i \in Deniable \cap {cmd}}
           \cup IF InTransaction(x) /\ cmd = "subscribe"
                THEN {PostA(refused, c, "Error")}
                ELSE {IF g.conn = None \/ ~g.state.sc[g.conn].good
                      THEN HandleResponse(g.state, None, r, "err")
                      ELSE PostHandle(PostS([g.state EXCEPT !.sc[g.conn].send = Append(@, r)],
                                            g.conn, "Write"), r, g.conn) :
                        g \in GetConnection(delivered, c, cmd)}

-----------------------------------------------------------------------------
(* epoll_wait's loop.                                                      *)

Live(c) == cc[c].open /\ cc[c].good

\* How many requests were read.
Parsed == Cardinality({r \in Client \X (1..MaxReq) : r[2] <= cc[r[1]].parsed})

\* Client c sends a request.  One that does not parse ("unknown") is answered
\* at once unless the client is in a transaction; then it is passed on like any
\* other request, for the server to refuse.
Read(c, cmd) ==
    /\ pc = "wait"
    /\ Live(c) /\ Parsed < MaxReq
    /\ LET r == <<c, cc[c].parsed + 1>>
           h == [Handler EXCEPT !.cc[c].parsed = @ + 1,
                                !.cc[c].requests = Append(@, r),
                                !.req[r].cmd = cmd]
       IN IF cmd = "unknown"
          THEN ~InTransaction(cc[c]) /\ Becomes(HandleResponse(h, None, r, "err"))
          ELSE \E g \in HandleRequest(h, r) : Becomes(g)
    /\ UNCHANGED <<pc, session>>

ClientError(c) ==
    /\ pc = "wait"
    /\ Live(c)
    /\ Becomes(PostA([Handler EXCEPT !.cc[c].good = FALSE], c, "Error"))
    /\ UNCHANGED <<pc, session>>

ServerError(k) ==
    /\ pc = "wait"
    /\ ServerFails
    /\ Open(sc[k]) /\ sc[k].good
    /\ Becomes(PostS([Handler EXCEPT !.sc[k].good = FALSE], k, "Error"))
    /\ UNCHANGED <<pc, session>>

\* What the server answers to command cmd in session s, and the session then.
\* In MULTI all but a few commands are queued; with a subscription all but
\* SUBSCRIBE and UNSUBSCRIBE are refused.
Served(s, cmd) ==
    CASE s.multi /\ cmd \notin {"exec", "discard", "multi", "watch"} -> <<"queued", s>>
      [] s.multi /\ cmd \in {"multi", "watch"} -> <<"err", s>>
      [] s.multi /\ cmd = "exec" -> <<"data", Clean>>
      [] s.multi /\ cmd = "discard" -> <<"ok", Clean>>
      [] ~s.multi /\ s.subs > 0 /\ cmd \notin {"subscribe", "unsubscribe"} -> <<"err", s>>
      [] ~s.multi /\ cmd = "subscribe" -> <<"sub", [s EXCEPT !.subs = @ + 1]>>
      [] ~s.multi /\ cmd = "unsubscribe" -> <<"unsub", [s EXCEPT !.subs = Minus(@, 1)]>>
      [] ~s.multi /\ s.subs = 0 /\ cmd = "multi" -> <<"ok", [s EXCEPT !.multi = TRUE]>>
      [] ~s.multi /\ s.subs = 0 /\ cmd = "watch" -> <<"ok", [s EXCEPT !.watch = TRUE]>>
      [] ~s.multi /\ s.subs = 0 /\ cmd = "unwatch" -> <<"ok", [s EXCEPT !.watch = FALSE]>>
      [] ~s.multi /\ s.subs = 0 /\ cmd \in {"exec", "discard"} -> <<"err", s>>
      [] OTHER -> <<"data", s>>

CountedPending(x, cmd, reply, subs) ==
    IF reply = "sub" \/ (reply = "err" /\ cmd = "subscribe")
    THEN [x EXCEPT !.pendSub = Minus(@, 1), !.sub = @ + 1] ELSE x

\* What ConnectConnection::handleResponse does for a client with subscriptions:
\* it counts them from the text of the response.
Counted(x, cmd, reply, subs) ==
    CASE reply = "sub" -> [x EXCEPT !.pendSub = Minus(@, 1), !.sub = subs]
      [] reply = "unsub" -> [x EXCEPT !.sub = subs]
      [] OTHER -> IF cmd = "subscribe" THEN [x EXCEPT !.pendSub = Minus(@, 1)] ELSE x

\* The response to the front request of connection k is read.
ReadReply(k) ==
    /\ pc = "wait"
    /\ Open(sc[k]) /\ sc[k].good
    /\ sc[k].sent # <<>>
    /\ LET r == Head(sc[k].sent)
           cmd == req[r].cmd
           c == sc[k].acc
       IN \E a \in {Served(session[k], cmd)}
                     \cup {<<"err", session[k]>> : i \in Refusable \cap {cmd}} :
            LET res == IF a[1] \in {"sub", "unsub"} THEN "data" ELSE a[1]
                h == IF c # None /\ InSub(cc[c])
                     THEN [Handler EXCEPT !.cc[c] = Counted(@, cmd, a[1], a[2].subs)]
                     ELSE Handler
            IN /\ session' = [session EXCEPT ![k] = a[2]]
               /\ Becomes(HandleResponse([h EXCEPT !.sc[k].sent = Tail(@)], k, r, res))
    /\ UNCHANGED pc

\* A message is published to the client that is attached to connection k: a
\* request is made for it, which it answers at once.
ReadMessage(k) ==
    /\ pc = "wait"
    /\ Open(sc[k]) /\ sc[k].good
    /\ session[k].subs > 0
    /\ LET c == sc[k].acc
           r == <<c, MaxReq + cc[c].messages + 1>>
           h == [Handler EXCEPT !.cc[c].messages = @ + 1,
                                !.cc[c].requests = Append(@, r),
                                !.req[r].cmd = "submsg"]
       IN /\ c # None /\ InSub(cc[c])
          /\ cc[c].messages < MaxMsg
          /\ Becomes(HandleResponse(h, k, r, "data"))
    /\ UNCHANGED <<pc, session>>

\* The end of a round of events.
EndWait ==
    /\ pc = "wait"
    /\ pc' = CASE postS.size # 0 -> "postS"
               [] postS.size = 0 /\ postA # <<>> -> "postA"
               [] OTHER -> "wait"
    /\ UNCHANGED <<cc, sc, idle, req, postA, postS, session>>

-----------------------------------------------------------------------------
(* postEvent: the connections in its list are written or closed, then the  *)
(* clients in theirs, until both lists are empty.                          *)

HasBody(h, r) == h.req[r].cmd \notin Empty

\* A request without a body is taken for answered, with no response.
SentOrEmpty(h, k, r) ==
    IF HasBody(h, r) THEN [h EXCEPT !.sc[k].sent = Append(@, r)]
    ELSE HandleResponse(h, k, r, "null")

\* write(): requests are found sent by the bytes that were written, so that one
\* without a body is noticed when a later one is sent.
Write(h, k) ==
    LET q == h.sc[k].send
        m == IF \E i \in DOMAIN q : HasBody(h, q[i])
             THEN CHOOSE i \in DOMAIN q :
                    HasBody(h, q[i]) /\ \A j \in i + 1..Len(q) : ~HasBody(h, q[j])
             ELSE 0
    IN FoldLeft(LAMBDA g, r : SentOrEmpty(g, k, r),
                [h EXCEPT !.sc[k].send = SubSeq(q, m + 1, Len(q))], SubSeq(q, 1, m))

UnansweredSent(h, k) == h.sc[k].sent

Unanswered(h, k) == h.sc[k].sent \o h.sc[k].send

\* A connection that went wrong is closed: its requests are answered, and so may
\* put it back; then it is put back if it is private.
Close(h, k) ==
    LET c == h.sc[k].acc
        answered == FoldLeft(LAMBDA g, r : HandleResponse(g, k, r, "err"), h,
                             Unanswered(h, k))
        closed == [answered EXCEPT !.sc[k].link = "closed", !.sc[k].good = FALSE,
                                   !.sc[k].send = <<>>, !.sc[k].sent = <<>>]
        put == IF k \in Private THEN PutPrivate(closed, k) ELSE closed
    IN IF c = None THEN put ELSE Detach(PostA(put, c, "Error"), c, k)

\* (If the list is not empty but does not begin with a connection, the program
\* crashes: nothing follows.)
PostConnect ==
    /\ pc = "postS" /\ postS.head # None
    /\ LET k == postS.head
           evts == sc[k].post
           h == [PopFront(Handler, "postS") EXCEPT !.sc[k].post = {}]
           written == IF sc[k].good /\ evts = {"Write"} THEN Write(h, k) ELSE h
           close == (~sc[k].good \/ "Error" \in evts) /\ Open(sc[k])
       IN /\ Becomes(IF close THEN Close(written, k) ELSE written)
          /\ session' = IF close THEN [session EXCEPT ![k] = Clean] ELSE session
    /\ pc' = CASE postS'.size # 0 -> "postS"
               [] postS'.size = 0 /\ postA' # <<>> -> "postA"
               [] OTHER -> "wait"

\* How many of the oldest requests of client c have an answer.
Ready(h, c) ==
    LET q == h.cc[c].requests IN
      CHOOSE n \in 0..Len(q) :
        /\ \A i \in 1..n : h.req[q[i]].res # "none"
        /\ n < Len(q) => h.req[q[n + 1]].res = "none"

\* fill() delivers requests that were held back: those that stand in line when
\* it meets the first without an answer, up to one that was delivered.
DeliverHeld(h, c) ==
    LET q == h.cc[c].requests
        n == Ready(h, c)
        m == CHOOSE m \in n..Len(q) :
               /\ \A i \in n + 1..m : ~h.req[q[i]].delivered
               /\ m < Len(q) => h.req[q[m + 1]].delivered
    IN IF n = Len(q) \/ h.cc[c].block THEN {h}
       ELSE FoldLeft(LAMBDA hs, r : UNION {HandleRequest(g, r) : g \in hs}, {h},
                     SubSeq(q, n + 1, m))

\* The answers of the n oldest requests are written.  An answered request
\* without a response is left in place if it is the last.
Shown(h, c, n) ==
    LET q == h.cc[c].requests
        HasResponse(i) == h.req[q[i]].res # "null"
        m == IF \E i \in 1..n : HasResponse(i)
             THEN CHOOSE i \in 1..n : HasResponse(i) /\ \A j \in i + 1..n : ~HasResponse(j)
             ELSE n
    IN [h EXCEPT !.cc[c].requests = SubSeq(q, m + 1, Len(q))]

\* A client that went wrong is closed, and the connection attached to it.
CloseClient(h, c) ==
    LET k == h.cc[c].conn
        closed == [h EXCEPT !.cc[c].open = FALSE, !.cc[c].requests = <<>>]
    IN IF k = None THEN closed
       ELSE Detach(PostS([closed EXCEPT !.sc[k].good = FALSE], k, "Error"), c, k)

\* The client stays in the list until it is dealt with.
PostAccept ==
    /\ pc = "postA" /\ postA # <<>>
    /\ LET c == Head(postA)
           evts == cc[c].post
           h == [Handler EXCEPT !.cc[c].post = {}]
           n == Ready(h, c)
       IN \E g \in IF cc[c].good /\ "Write" \in evts THEN DeliverHeld(h, c) ELSE {h} :
            LET written == IF cc[c].good /\ "Write" \in evts THEN Shown(g, c, n) ELSE g
                closed == IF (~cc[c].good \/ "Error" \in evts) /\ cc[c].open
                          THEN CloseClient(written, c) ELSE written
            IN Becomes([closed EXCEPT !.postA = Tail(@)])
    /\ pc' = CASE postA' # <<>> -> "postA"
               [] postA' = <<>> /\ postS'.size # 0 -> "postS"
               [] OTHER -> "wait"
    /\ UNCHANGED session

Next ==
    \/ \E c \in Client :
         \/ \E cmd \in Uses[c] : Read(c, cmd)
         \/ ClientError(c)
    \/ \E k \in Conn :
         \/ ServerError(k)
         \/ ReadReply(k)
         \/ ReadMessage(k)
    \/ EndWait
    \/ PostConnect
    \/ PostAccept

Spec == Init /\ [][Next]_vars

-----------------------------------------------------------------------------
(* What must hold.                                                         *)

\* The n-th connection that list l runs through, counted from 0.
Nth(l) ==
    LET nth[n \in 0..Cardinality(Conn)] ==
          IF n = 0 THEN l.head
          ELSE IF nth[n - 1] = None THEN None ELSE sc[nth[n - 1]].next
    IN nth

Listed(l) == {Nth(l)[n] : n \in 0..Cardinality(Conn)} \ {None}

\* A list runs through as many connections as it has elements, up to its tail.
Sound(l) ==
    /\ l.size = Cardinality(Listed(l))
    /\ l.size > 0 => Nth(l)[l.size - 1] = l.tail
    /\ Nth(l)[l.size] = None

\* A private connection serves one client at a time: client and connection are
\* attached to each other, and meanwhile the connection is not idle.  An idle
\* connection is private and has no events, as it has one link for both lists
\* (putPrivateConnection asks neither whether the connection is idle already nor
\* whether it has events), and both lists are sound.
Exclusive ==
    /\ \A c \in Client, k \in Conn : cc[c].conn = k <=> sc[k].acc = c
    /\ \A k \in Listed(idle) : k \in Private /\ sc[k].acc = None /\ sc[k].post = {}
    /\ Sound(idle)
    /\ Sound(postS)

\* As the clients see it: no two of them are attached to one connection
\* (Command::Private says "require private connection").
OneClient ==
    \A c, d \in Client : c # d /\ cc[c].conn # None => cc[c].conn # cc[d].conn

\* Nobody inherits a transaction, watched keys or a subscription: a working
\* connection on which the server keeps one is attached to a client, and only
\* this client's requests are queued on it.
Isolated ==
    \A k \in Conn :
      Open(sc[k]) /\ sc[k].good /\ session[k] # Clean =>
        /\ sc[k].acc # None
        /\ \A i \in DOMAIN sc[k].sent : sc[k].sent[i][1] = sc[k].acc
        /\ \A i \in DOMAIN sc[k].send : sc[k].send[i][1] = sc[k].acc

\* The counters of a client agree with the server: they are changed by the
\* responses it is passed, in which nothing says which session they are about.
InStep ==
    \A c \in Client : \A k \in Private :
      cc[c].conn = k /\ cc[c].good /\ "Error" \notin cc[c].post /\ sc[k].good =>
        /\ cc[c].multi > 0 <=> session[k].multi
        /\ session[k].watch => cc[c].watch > 0
        /\ cc[c].sub = session[k].subs

\* A blocked client waits for the answer to one of its requests: nothing else
\* unblocks it.
BlockedByRequest ==
    \A c \in Client :
      cc[c].open /\ cc[c].good /\ cc[c].block =>
        \E i \in DOMAIN cc[c].requests :
          LET r == cc[c].requests[i] IN
            req[r].delivered /\ req[r].res = "none" /\ req[r].cmd \in Blocking

\* A request that was delivered and has no answer waits on an open connection,
\* whichever connections fail and whatever is refused meanwhile.
NotLost ==
    \A c \in Client : \A i \in DOMAIN cc[c].requests :
      LET r == cc[c].requests[i] IN
        cc[c].open /\ cc[c].good /\ req[r].delivered /\ req[r].res = "none" =>
          \E k \in Conn : Open(sc[k]) /\ Contains(sc[k].sent \o sc[k].send, r)

\* Requests that were held back are delivered: unless the client is blocked,
\* either fill() will be called (the client is to be written), or the oldest
\* request was delivered and its answer will cause that.
HeldBackDelivered ==
    \A c \in Client :
      cc[c].open /\ cc[c].good /\ cc[c].requests # <<>> /\ ~cc[c].block =>
        \/ "Write" \in cc[c].post
        \/ req[Head(cc[c].requests)].delivered
=============================================================================
