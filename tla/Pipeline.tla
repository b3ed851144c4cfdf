------------------------------ MODULE Pipeline ------------------------------
(***************************************************************************)
(* One Handler thread of predixy: its event loop, the pipelines of its     *)
(* clients (AcceptConnection) and the shared connection it keeps with each *)
(* server (ConnectConnection in a ConnectConnectionPool).                  *)
(*                                                                         *)
(* A client's requests wait in the order they were read (requests) until   *)
(* each is answered.  A request is answered by the proxy itself or is      *)
(* queued on a server's connection, where it is unsent (send) and then     *)
(* awaits its response (sent); a response is matched with the front of     *)
(* sent.  Sockets are read while the thread is in epoll_wait's loop (pc =  *)
(* "wait"), written and closed only afterwards, from two post lists.       *)
(*                                                                         *)
(* The commands are those served on a shared connection one request at a   *)
(* time.  Commands that need a private connection, and commands that the   *)
(* proxy splits by key, are left to modules of their own.                  *)
(***************************************************************************)
EXTENDS Naturals, Sequences

CONSTANTS
    Client,             \* the client connections of this handler
    Server,             \* the servers, each with one shared connection (db 0)
    MaxReq,             \* bound: how many requests a client sends
    Setup,              \* AUTH, READONLY and SELECT on a new connection,
                        \* whose replies are handled alike
    PingServ,           \* the PING that ends the setting up of a connection
    Asking,             \* ASKING, sent before a request that is redirected
    Handshake,          \* what init() queues first on a new connection
    Cluster,            \* TRUE: the pool is a ClusterServerPool
    MaxRedirect,        \* Request::MaxRedirectLimit
    FailureLimit,       \* ServerFailureLimit
    ClientTimeout,      \* TRUE: ClientTimeout is not 0
    ServerTimeout       \* TRUE: ServerTimeout is not 0

\* The requests the proxy makes for itself.
Inner == {Setup, PingServ, Asking}

\* The n-th request read from client c.
Req == Client \X (1..MaxReq)

ASSUME PipelineAssumption ==
    /\ MaxReq \in Nat
    /\ Handshake \in Seq({Setup, PingServ}) \ {<<>>}
    /\ Cluster \in BOOLEAN
    /\ MaxRedirect \in Nat
    /\ FailureLimit \in Nat \ {0}
    /\ ClientTimeout \in BOOLEAN
    /\ ServerTimeout \in BOOLEAN
    /\ Inner \cap Req = {}
    /\ Setup # PingServ /\ Setup # Asking /\ PingServ # Asking

-----------------------------------------------------------------------------
VARIABLES
    cc,         \* the AcceptConnections
    sc,         \* the shared ConnectConnections
    delivered,  \* Request::mDelivered
    res,        \* Request::mRes: the answer of a request, or NoRes
    redirects,  \* Request::mRedirectCnt
    fail,       \* Server::mFail
    failures,   \* Server::mFailureCnt modulo the failure limit
    postA,      \* mPostAcceptConns
    postS,      \* mPostConnectConns
    pc,         \* where run() is
    after,      \* where run() goes on when postEvent() returns ("wait"
                \* while that has not been called)
    cur,        \* the connection being closed (pc = "closing")
    wire,       \* what a server has received and not yet answered
    out         \* the answers written to a client

vars == <<cc, sc, delivered, res, redirects, fail, failures, postA, postS,
          pc, after, cur, wire, out>>

loop == <<pc, after, cur>>

Event == {"Write", "Error"}

\* An answer names the request it was made for: "data" is the server's reply,
\* "moved" and "ask" its redirections, "proxy" a reply the proxy made.
Answer == [kind : {"data", "proxy"}, of : Req]
            \cup [kind : {"moved", "ask"}, of : Req, to : Server]

NoRes == [kind |-> "none"]

AcceptConn ==
    [fd : {"none", "open", "closed"},
     good : BOOLEAN,
     closeASAP : BOOLEAN,
     requests : Seq(Req),           \* mRequests
     parsed : 0..MaxReq,            \* how many requests were read
     post : SUBSET Event,           \* mPostEvts
     writable : BOOLEAN]            \* registered for write events

ConnectConn ==
    [link : {"none", "closed", "connecting", "connected"},
     status : {"Normal", "None", "IOError", "LogicError", "OtherError"},
     send : Seq(Req \cup Inner),    \* mSendRequests
     sent : Seq(Req \cup Inner),    \* mSentRequests
     post : SUBSET Event,
     writable : BOOLEAN,
     wait : BOOLEAN]                \* it is in mWaitConnectConns

TypeOK ==
    /\ cc \in [Client -> AcceptConn]
    /\ sc \in [Server -> ConnectConn]
    /\ delivered \in [Req -> BOOLEAN]
    /\ res \in [Req -> Answer \cup {NoRes}]
    /\ redirects \in [Req -> Nat]
    /\ fail \in [Server -> BOOLEAN]
    /\ failures \in [Server -> 0..FailureLimit - 1]
    /\ postA \in Seq(Client)
    /\ postS \in Seq(Server)
    /\ pc \in {"wait", "postS", "postA", "closing", "clientTimeout",
               "checkPool", "serverTimeout"}
    /\ after \in {"clientTimeout", "checkPool", "wait"}
    /\ cur \in Server
    /\ wire \in [Server -> Seq(Req \cup Inner)]
    /\ out \in [Client -> Seq(Answer)]

Init ==
    /\ cc = [c \in Client |->
               [fd |-> "none", good |-> TRUE, closeASAP |-> FALSE,
                requests |-> <<>>, parsed |-> 0, post |-> {},
                writable |-> FALSE]]
    /\ sc = [s \in Server |->
               [link |-> "none", status |-> "None", send |-> <<>>,
                sent |-> <<>>, post |-> {}, writable |-> FALSE,
                wait |-> FALSE]]
    /\ delivered = [r \in Req |-> FALSE]
    /\ res = [r \in Req |-> NoRes]
    /\ redirects = [r \in Req |-> 0]
    /\ fail = [s \in Server |-> FALSE]
    /\ failures = [s \in Server |-> 0]
    /\ postA = <<>>
    /\ postS = <<>>
    /\ pc = "wait"
    /\ after = "wait"
    /\ cur \in Server
    /\ wire = [s \in Server |-> <<>>]
    /\ out = [c \in Client |-> <<>>]

-----------------------------------------------------------------------------
(* What the operations of the handler are made of.                         *)

Done(r) == res[r] # NoRes

Open(x) == x.link \in {"connecting", "connected"}

\* (Mutants, operators that differ from the one that follows them by a mistake
\* one could make, are named for the mistake and used by nothing here.)

\* A client that is still connected and to which nothing went wrong: the
\* requests of a closed client are detached from it.
LiveUnlessClosed(c) == cc[c].fd = "open"

Live(c) == cc[c].fd = "open" /\ cc[c].good

\* addPostEvent enters a connection in its list with its first pending event.
EnterPostA(c) ==
    postA' = IF cc[c].post = {} /\ cc'[c].post # {} THEN Append(postA, c) ELSE postA

EnterPostS(s) ==
    postS' = IF sc[s].post = {} /\ sc'[s].post # {} THEN Append(postS, s) ELSE postS

AddPost(x, e) == [x EXCEPT !.post = @ \cup {e}]

\* Queue requests q on connection x.
SendFirst(x, q) == AddPost([x EXCEPT !.send = q \o @], "Write")

Send(x, q) == AddPost([x EXCEPT !.send = @ \o q], "Write")

\* write(): the first k unsent requests of connection x are sent.  If not all,
\* x waits to be writable; it joins mWaitConnectConns.
FlushedAll(x, k) ==
    [x EXCEPT !.send = <<>>, !.sent = @ \o x.send,
              !.writable = k < Len(x.send), !.wait = TRUE]

FlushedTwice(x, k) ==
    [x EXCEPT !.send = IF k = 0 THEN @ ELSE SubSeq(@, k, Len(@)),
              !.sent = @ \o SubSeq(x.send, 1, k),
              !.writable = k < Len(x.send), !.wait = TRUE]

FlushedOnce(x, k) ==
    [x EXCEPT !.send = SubSeq(@, k + 1, Len(@)),
              !.sent = @ \o SubSeq(x.send, 1, k),
              !.writable = FALSE, !.wait = TRUE]

FlushedUntimed(x, k) ==
    [x EXCEPT !.send = SubSeq(@, k + 1, Len(@)),
              !.sent = @ \o SubSeq(x.send, 1, k),
              !.writable = k < Len(x.send), !.wait = k < Len(x.send)]

Flushed(x, k) ==
    [x EXCEPT !.send = SubSeq(@, k + 1, Len(@)),
              !.sent = @ \o SubSeq(x.send, 1, k),
              !.writable = k < Len(x.send), !.wait = TRUE]

\* incrFail: every FailureLimit-th failure marks the server failed.
IncrFailUnbounded(n) == n + 1

IncrFail(n) == (n + 1) % FailureLimit

\* Answer request r of client x: the client is to be written when the oldest
\* of its requests has an answer.
SetResponse(x, r, a) ==
    /\ res' = [res EXCEPT ![r] = a]
    /\ cc' = [cc EXCEPT ![r[1]] =
                IF res'[Head(x.requests)] # NoRes THEN AddPost(x, "Write") ELSE x]

\* What an attempt to open connection x may leave: init() may fail to
\* register the socket or to connect, and the socket is closed again.
Opened(x) ==
    {Send([x EXCEPT !.link = l, !.status = "Normal", !.writable = TRUE], Handshake) :
        l \in {"connecting", "connected"}}
      \cup {[x EXCEPT !.link = "closed", !.status = "None", !.writable = FALSE]}

\* getShareConnection: the connection as the call leaves it, and whether the
\* caller is given it.
GetShareConnection(x, failed) ==
    IF Open(x)
    THEN {[conn |-> x, got |-> ~failed]}
    ELSE IF x.link = "closed" /\ failed
    THEN {[conn |-> x, got |-> FALSE]}
    ELSE {[conn |-> y, got |-> Open(y) /\ ~failed] : y \in Opened(x)}

-----------------------------------------------------------------------------
(* epoll_wait's loop: handleEvent for the sockets that have events.        *)

Accept(c) ==
    /\ pc = "wait"
    /\ cc[c].fd = "none"
    /\ cc' = [cc EXCEPT ![c].fd = "open"]
    /\ UNCHANGED <<sc, delivered, res, redirects, fail, failures, postA, postS,
                   loop, wire, out>>

\* The request that client c sends next, and c once it is parsed.
NextReq(c) == <<c, cc[c].parsed + 1>>

ParsedFirst(c) == [cc[c] EXCEPT !.parsed = @ + 1, !.requests = <<NextReq(c)>> \o @]

Parsed(c) == [cc[c] EXCEPT !.parsed = @ + 1, !.requests = Append(@, NextReq(c))]

CanRead(c) == pc = "wait" /\ Live(c) /\ cc[c].parsed < MaxReq

\* After QUIT a request is parsed and goes no further.
ReadIgnored(c) ==
    /\ CanRead(c)
    /\ cc[c].closeASAP
    /\ cc' = [cc EXCEPT ![c] = Parsed(c)]
    /\ UNCHANGED <<sc, delivered, res, redirects, fail, failures, postA, postS,
                   loop, wire, out>>

\* A request that the proxy answers itself: PING and the like, a command that
\* is not permitted, a key for which there is no server, and QUIT.
ReadDirect(c, quit) ==
    /\ CanRead(c)
    /\ ~cc[c].closeASAP
    /\ LET r == NextReq(c) IN
         /\ delivered' = [delivered EXCEPT ![r] = TRUE]
         /\ SetResponse([Parsed(c) EXCEPT !.closeASAP = quit], r,
                        [kind |-> "proxy", of |-> r])
    /\ EnterPostA(c)
    /\ UNCHANGED <<sc, redirects, fail, failures, postS, loop, wire, out>>

\* An unknown command or a wrong number of arguments: the parser's error is the
\* answer, also after QUIT.
ReadInvalid(c) ==
    /\ CanRead(c)
    /\ LET r == NextReq(c) IN SetResponse(Parsed(c), r, [kind |-> "proxy", of |-> r])
    /\ EnterPostA(c)
    /\ UNCHANGED <<sc, delivered, redirects, fail, failures, postS, loop, wire, out>>

\* A request that is routed to server s: it is queued on the connection, or
\* answered with NoServerConnection when that cannot be had.
ReadForward(c, s) ==
    /\ CanRead(c)
    /\ ~cc[c].closeASAP
    /\ LET r == NextReq(c) IN
         /\ delivered' = [delivered EXCEPT ![r] = TRUE]
         /\ \E g \in GetShareConnection(sc[s], fail[s]) :
              \/ /\ g.got /\ g.conn.status = "Normal"
                 /\ sc' = [sc EXCEPT ![s] = Send(g.conn, <<r>>)]
                 /\ cc' = [cc EXCEPT ![c] = Parsed(c)]
                 /\ UNCHANGED res
              \/ /\ ~(g.got /\ g.conn.status = "Normal")
                 /\ sc' = [sc EXCEPT ![s] = g.conn]
                 /\ SetResponse(Parsed(c), r, [kind |-> "proxy", of |-> r])
    /\ EnterPostS(s)
    /\ EnterPostA(c)
    /\ UNCHANGED <<redirects, fail, failures, loop, wire, out>>

\* An error event, end of file, a read error or a request that does not parse.
ClientError(c) ==
    /\ pc = "wait"
    /\ Live(c)
    /\ cc' = [cc EXCEPT ![c] = AddPost([@ EXCEPT !.good = FALSE], "Error")]
    /\ EnterPostA(c)
    /\ UNCHANGED <<sc, delivered, res, redirects, fail, failures, postS, loop,
                   wire, out>>

ClientWritable(c) ==
    /\ pc = "wait"
    /\ Live(c)
    /\ cc[c].writable
    /\ cc' = [cc EXCEPT ![c] = AddPost(@, "Write")]
    /\ EnterPostA(c)
    /\ UNCHANGED <<sc, delivered, res, redirects, fail, failures, postS, loop,
                   wire, out>>

\* A write event also tells that a connection attempt has succeeded.
ServerWritable(s) ==
    /\ pc = "wait"
    /\ Open(sc[s]) /\ sc[s].status = "Normal"
    /\ sc[s].writable
    /\ sc' = [sc EXCEPT ![s] = AddPost([@ EXCEPT !.link = "connected"], "Write")]
    /\ EnterPostS(s)
    /\ UNCHANGED <<cc, delivered, res, redirects, fail, failures, postA, loop,
                   wire, out>>

\* "IOError" stands for End, IOError and EventError, which count as failures
\* of the server, "OtherError" for ParseError and TimeoutError.
ServerError(s, status) ==
    /\ pc = "wait"
    /\ Open(sc[s]) /\ sc[s].status = "Normal"
    /\ sc' = [sc EXCEPT ![s] = AddPost([@ EXCEPT !.status = status], "Error")]
    /\ EnterPostS(s)
    /\ UNCHANGED <<cc, delivered, res, redirects, fail, failures, postA, loop,
                   wire, out>>

\* The response of a server to the request it received first is matched with
\* the front of sent.  (One readEvent may carry several responses; the rest of
\* them are handled even if one of them was the refusal of a Setup request.)
CanReadReply(s) ==
    /\ pc = "wait"
    /\ Open(sc[s]) /\ sc[s].status \in {"Normal", "LogicError"}
    /\ wire[s] # <<>> /\ sc[s].sent # <<>>

\* innerResponse: a PONG marks the server alive, a refused Setup request makes
\* the connection useless.
ReadInnerReply(s, ok) ==
    /\ CanReadReply(s)
    /\ LET x == [sc[s] EXCEPT !.sent = Tail(@)]
           q == Head(sc[s].sent)
       IN
         /\ q \in Inner
         /\ fail' = [fail EXCEPT ![s] = @ /\ ~(q = PingServ /\ ok)]
         /\ sc' = [sc EXCEPT ![s] = IF q = Setup /\ ~ok
                                    THEN AddPost([x EXCEPT !.status = "LogicError"], "Error")
                                    ELSE x]
    /\ wire' = [wire EXCEPT ![s] = Tail(@)]
    /\ EnterPostS(s)
    /\ UNCHANGED <<cc, delivered, res, redirects, failures, postA, loop, out>>

\* handleResponse, when the client of the request has gone.
ReadLateReply(s) ==
    /\ CanReadReply(s)
    /\ Head(sc[s].sent) \in Req
    /\ ~Live(Head(sc[s].sent)[1])
    /\ sc' = [sc EXCEPT ![s].sent = Tail(@)]
    /\ wire' = [wire EXCEPT ![s] = Tail(@)]
    /\ UNCHANGED <<cc, delivered, res, redirects, fail, failures, postA, postS,
                   loop, out>>

\* handleResponse, when the response is for the client.
ReadReply(s) ==
    /\ CanReadReply(s)
    /\ LET q == Head(sc[s].sent) IN
         /\ q \in Req
         /\ Live(q[1])
         /\ SetResponse(cc[q[1]], q, [kind |-> "data", of |-> Head(wire[s])])
         /\ EnterPostA(q[1])
    /\ sc' = [sc EXCEPT ![s].sent = Tail(@)]
    /\ wire' = [wire EXCEPT ![s] = Tail(@)]
    /\ UNCHANGED <<delivered, redirects, fail, failures, postS, loop, out>>

\* redirect() queues request q on connection x: not if x has just failed.
RequeuedLate(x, kind, q) ==
    IF x.status # "Normal" THEN x
    ELSE Send(x, IF kind = "ask" THEN <<q, Asking>> ELSE <<q>>)

Requeued(x, kind, q) ==
    IF x.status # "Normal" THEN x
    ELSE Send(x, IF kind = "ask" THEN <<Asking, q>> ELSE <<q>>)

\* handleResponse and redirect(), when the response sends the request on to
\* server t.  The client is given the redirection itself when the request was
\* redirected too often or there is no connection with t; when there is one
\* that has just failed, handleRequest(req, s) drops the request.
ReadRedirection(s, kind, t) ==
    /\ CanReadReply(s)
    /\ Cluster
    /\ LET q == Head(sc[s].sent)
           x == [sc EXCEPT ![s].sent = Tail(@)]
           a == [kind |-> kind, of |-> Head(wire[s]), to |-> t]
       IN
         /\ q \in Req
         /\ Live(q[1])
         /\ redirects' = [redirects EXCEPT ![q] = @ + 1]
         /\ \/ /\ redirects'[q] > MaxRedirect
               /\ sc' = x
               /\ SetResponse(cc[q[1]], q, a)
            \/ /\ redirects'[q] <= MaxRedirect
               /\ \E g \in GetShareConnection(x[t], fail[t]) :
                    \/ /\ ~g.got
                       /\ sc' = [x EXCEPT ![t] = g.conn]
                       /\ SetResponse(cc[q[1]], q, a)
                    \/ /\ g.got
                       /\ sc' = [x EXCEPT ![t] = Requeued(g.conn, kind, q)]
                       /\ UNCHANGED <<cc, res>>
         /\ EnterPostA(q[1])
         /\ EnterPostS(t)
    /\ wire' = [wire EXCEPT ![s] = Tail(@)]
    /\ UNCHANGED <<delivered, fail, failures, loop, out>>

\* The events of this round are handled.
EndWait ==
    /\ pc = "wait"
    /\ pc' = "postS"
    /\ after' = "clientTimeout"
    /\ UNCHANGED <<cc, sc, delivered, res, redirects, fail, failures, postA,
                   postS, cur, wire, out>>

-----------------------------------------------------------------------------
(* postEvent: write the connections in the post lists, then close those    *)
(* that went wrong.  The two lists are emptied in turn until both are.     *)

\* postConnectConnectionEvent writes the first k unsent requests, and the write
\* may fail before the last (the requests then go to close()).  A connection with any event but a write, or that
\* is still connecting, is not written.
PostConnect ==
    /\ pc = "postS" /\ postS # <<>>
    /\ LET s == Head(postS)
           x == [sc[s] EXCEPT !.post = {}]
           n == Len(x.send)
           writes == x.status = "Normal" /\ x.link = "connected" /\ sc[s].post = {"Write"}
       IN \E k \in 0..n, bad \in BOOLEAN :
            LET y == IF ~writes THEN x
                     ELSE IF bad THEN [Flushed(x, k) EXCEPT !.status = "IOError",
                                                            !.writable = x.writable,
                                                            !.wait = x.wait]
                     ELSE Flushed(x, k)
                close == (y.status # "Normal" \/ "Error" \in sc[s].post) /\ Open(x)
            IN
              /\ ~writes => k = 0
              /\ bad => writes /\ k < n
              /\ sc' = [sc EXCEPT ![s] = y]
              /\ wire' = [wire EXCEPT ![s] = @ \o SubSeq(x.send, 1, k)]
              /\ pc' = IF close THEN "closing" ELSE pc
              /\ cur' = IF close THEN s ELSE cur
              /\ IF close /\ y.status = "IOError"
                 THEN /\ failures' = [failures EXCEPT ![s] = IncrFail(@)]
                      /\ fail' = [fail EXCEPT ![s] = @ \/ failures'[s] = 0]
                 ELSE UNCHANGED <<failures, fail>>
    /\ postS' = Tail(postS)
    /\ UNCHANGED <<cc, delivered, res, redirects, postA, after, out>>

AnswerableSent(q) == q \in Req /\ Live(q[1]) /\ sc[cur].sent # <<>>

Answerable(q) == q \in Req /\ Live(q[1])

\* ConnectConnection::close answers what is still queued, sent requests first,
\* with ServerConnectionClose; an inner request and one whose client has gone
\* are just dropped.
CloseRequest(q) ==
    /\ pc = "closing"
    /\ \/ /\ sc[cur].sent # <<>> /\ q = Head(sc[cur].sent)
          /\ sc' = [sc EXCEPT ![cur].sent = Tail(@)]
       \/ /\ sc[cur].sent = <<>> /\ sc[cur].send # <<>> /\ q = Head(sc[cur].send)
          /\ sc' = [sc EXCEPT ![cur].send = Tail(@)]
    /\ IF Answerable(q)
       THEN SetResponse(cc[q[1]], q, [kind |-> "proxy", of |-> q]) /\ EnterPostA(q[1])
       ELSE UNCHANGED <<cc, res, postA>>
    /\ UNCHANGED <<delivered, redirects, fail, failures, postS, loop, wire, out>>

\* The socket is closed: what the server has received or answered is lost.
CloseSocket ==
    /\ pc = "closing"
    /\ sc[cur].sent = <<>> /\ sc[cur].send = <<>>
    /\ sc' = [sc EXCEPT ![cur].link = "closed", ![cur].status = "None",
                        ![cur].writable = FALSE]
    /\ wire' = [wire EXCEPT ![cur] = <<>>]
    /\ pc' = "postS"
    /\ UNCHANGED <<cc, delivered, res, redirects, fail, failures, postA, postS,
                   after, cur, out>>

\* mPostConnectConns is empty: the clients' turn.
TurnToAccept ==
    /\ pc = "postS" /\ postS = <<>>
    /\ pc' = "postA"
    /\ UNCHANGED <<cc, sc, delivered, res, redirects, fail, failures, postA,
                   postS, after, cur, wire, out>>

\* postAcceptConnectionEvent writes the answers of the client's k oldest
\* requests; it has finished when the next one has no answer.  A client that
\* sent QUIT is closed when that much is written.
PostAccept ==
    /\ pc = "postA" /\ postA # <<>>
    /\ LET c == Head(postA)
           x == [cc[c] EXCEPT !.post = {}]
           n == Len(x.requests)
           writes == x.good /\ "Write" \in cc[c].post
       IN \E k \in 0..n, bad \in BOOLEAN :
            LET finished == k = n \/ ~Done(x.requests[k + 1])
                y == IF writes
                     THEN [x EXCEPT !.requests = SubSeq(@, k + 1, n),
                                    !.good = ~bad /\ ~(finished /\ x.closeASAP),
                                    !.writable = ~finished]
                     ELSE x
            IN
              /\ ~writes => k = 0
              /\ bad => writes /\ ~finished
              /\ \A i \in 1..k : Done(x.requests[i])
              /\ cc' = [cc EXCEPT ![c] =
                          IF (~y.good \/ "Error" \in cc[c].post) /\ y.fd = "open"
                          THEN [y EXCEPT !.fd = "closed", !.requests = <<>>, !.writable = FALSE]
                          ELSE y]
              /\ out' = [out EXCEPT ![c] = @ \o [i \in 1..k |-> res[x.requests[i]]]]
    /\ postA' = Tail(postA)
    /\ UNCHANGED <<sc, delivered, res, redirects, fail, failures, postS, loop, wire>>

\* mPostAcceptConns is empty: postEvent() returns when the other list is, too.
EndPostWhenFlushed ==
    /\ pc = "postA" /\ postA = <<>>
    /\ \/ /\ \E s \in Server : sc[s].send # <<>>
          /\ pc' = "postS"
          /\ UNCHANGED after
       \/ /\ \A s \in Server : sc[s].send = <<>>
          /\ pc' = after
          /\ after' = "wait"
    /\ UNCHANGED <<cc, sc, delivered, res, redirects, fail, failures, postA,
                   postS, cur, wire, out>>

EndPost ==
    /\ pc = "postA" /\ postA = <<>>
    /\ \/ /\ postS # <<>>
          /\ pc' = "postS"
          /\ UNCHANGED after
       \/ /\ postS = <<>>
          /\ pc' = after
          /\ after' = "wait"
    /\ UNCHANGED <<cc, sc, delivered, res, redirects, fail, failures, postA,
                   postS, cur, wire, out>>

-----------------------------------------------------------------------------
(* The checks run() makes once per round.                                  *)

\* checkClientTimeout: a client is idle only when nothing of it is pending.
\* Closing one moves it to the end of the list, which ends the scan.
IdleClient(c) ==
    /\ pc = "clientTimeout"
    /\ ClientTimeout
    /\ cc[c].fd = "open" /\ cc[c].requests = <<>>
    /\ cc' = [cc EXCEPT ![c] = AddPost(@, "Error")]
    /\ EnterPostA(c)
    /\ pc' = "postS"
    /\ after' = "checkPool"
    /\ UNCHANGED <<sc, delivered, res, redirects, fail, failures, postS, cur,
                   wire, out>>

NoIdleClient ==
    /\ pc = "clientTimeout"
    /\ pc' = "checkPool"
    /\ UNCHANGED <<cc, sc, delivered, res, redirects, fail, failures, postA,
                   postS, after, cur, wire, out>>

\* checkConnectionPool: the connection of a failed server is tried again.
CheckPool(s) ==
    /\ pc = "checkPool"
    /\ fail[s]
    /\ sc[s].link = "closed"
    /\ \E x \in Opened(sc[s]) : sc' = [sc EXCEPT ![s] = x]
    /\ EnterPostS(s)
    /\ UNCHANGED <<cc, delivered, res, redirects, fail, failures, postA, loop,
                   wire, out>>

EndCheckPool ==
    /\ pc = "checkPool"
    /\ pc' = IF ServerTimeout THEN "serverTimeout" ELSE "wait"
    /\ UNCHANGED <<cc, sc, delivered, res, redirects, fail, failures, postA,
                   postS, after, cur, wire, out>>

\* frontRequest() is not null.
Waiting(x) == x.sent # <<>> \/ x.send # <<>>

\* checkServerTimeout: a connection that was written once is closed when its
\* front request is too old.
TimedOut(s) ==
    /\ pc = "serverTimeout"
    /\ sc[s].wait /\ Waiting(sc[s])
    /\ sc' = [sc EXCEPT ![s] = AddPost([@ EXCEPT !.status = "OtherError",
                                                 !.wait = FALSE], "Error")]
    /\ EnterPostS(s)
    /\ UNCHANGED <<cc, delivered, res, redirects, fail, failures, postA, loop,
                   wire, out>>

\* The connections that wait for nothing leave mWaitConnectConns.  postEvent()
\* is called again if any has timed out.
EndServerTimeout ==
    /\ pc = "serverTimeout"
    /\ sc' = [s \in Server |-> [sc[s] EXCEPT !.wait = @ /\ Waiting(sc[s])]]
    /\ pc' = IF \E s \in Server : "Error" \in sc[s].post THEN "postS" ELSE "wait"
    /\ UNCHANGED <<cc, delivered, res, redirects, fail, failures, postA, postS,
                   after, cur, wire, out>>

-----------------------------------------------------------------------------
(* The specification.                                                      *)

\* What the clients, the servers and the network bring about.
SocketEvent ==
    \/ \E c \in Client :
         \/ Accept(c)
         \/ ReadIgnored(c)
         \/ \E quit \in BOOLEAN : ReadDirect(c, quit)
         \/ ReadInvalid(c)
         \/ \E s \in Server : ReadForward(c, s)
         \/ ClientError(c)
         \/ ClientWritable(c)
    \/ \E s \in Server :
         \/ ServerWritable(s)
         \/ \E status \in {"IOError", "OtherError"} : ServerError(s, status)
         \/ \E ok \in BOOLEAN : ReadInnerReply(s, ok)
         \/ ReadLateReply(s)
         \/ ReadReply(s)
         \/ \E kind \in {"moved", "ask"}, t \in Server : ReadRedirection(s, kind, t)

\* What the thread does between two calls of epoll_wait.
PostStep ==
    \/ PostConnect
    \/ \E q \in Req \cup Inner : CloseRequest(q)
    \/ CloseSocket
    \/ TurnToAccept
    \/ PostAccept
    \/ EndPost

CheckStep ==
    \/ \E c \in Client : IdleClient(c)
    \/ NoIdleClient
    \/ \E s \in Server : CheckPool(s)
    \/ EndCheckPool
    \/ \E s \in Server : TimedOut(s)
    \/ EndServerTimeout

Next == SocketEvent \/ EndWait \/ PostStep \/ CheckStep

Spec == Init /\ [][Next]_vars

\* A connection attempt succeeds or fails.
ConnectEnds(s) ==
    /\ sc[s].link = "connecting"
    /\ ServerWritable(s) \/ ServerError(s, "IOError")

\* The thread keeps running; the kernel ends every connection attempt; the
\* clock passes any timeout, so that a connection that keeps waiting is found.
\* Nothing is assumed of the clients, nor that a server ever reads or answers.
FairSpec ==
    /\ Spec
    /\ WF_vars(EndWait \/ PostStep \/ CheckStep)
    /\ \A s \in Server :
         /\ SF_vars(ConnectEnds(s))
         /\ SF_vars(TimedOut(s))

-----------------------------------------------------------------------------
(* What must hold.                                                         *)

\* The requests that wait on connection s, oldest first.
Queue(s) == sc[s].sent \o sc[s].send

\* The answers written to a client are those of its requests, in the order it
\* sent them: none is missing, doubled, or given to another client, although a
\* connection carries the requests of all clients and servers answer out of
\* step (fill and write of AcceptConnection, handleResponse of
\* ConnectConnection, redirections and reconnections in between).
InOrder ==
    \A c \in Client : \A i \in 1..Len(out[c]) : out[c][i].of = <<c, i>>

\* A response is matched with the front of sent only by its position.  It is
\* the right one because sent holds exactly what the server has yet to answer,
\* also after partial writes, timeouts and reopened connections.
Matched ==
    \A s \in Server :
      Open(sc[s]) /\ ~(pc = "closing" /\ cur = s) => sc[s].sent = wire[s]

\* A request is queued at one place only and not at all once it has its answer,
\* so that no request is sent twice at the same time, and a request gets one
\* answer (redirect() queues a request again while it is the front of sent).
QueuedOnce ==
    \A s, t \in Server : \A i \in 1..Len(Queue(s)), j \in 1..Len(Queue(t)) :
      Queue(s)[i] \in Req =>
        /\ ~Done(Queue(s)[i])
        /\ Queue(s)[i] = Queue(t)[j] => s = t /\ i = j

\* A request of a connected client that was passed on and has no answer waits
\* on an open connection: no early return and no closed connection forgets it.
NotLost ==
    \A r \in Req :
      delivered[r] /\ ~Done(r) /\ Live(r[1]) =>
        \E s \in Server : Open(sc[s]) /\ \E i \in 1..Len(Queue(s)) : Queue(s)[i] = r

\* No wakeup is lost: sockets are registered edge-triggered, and write events
\* only when a write could not finish.  What a working connection has to write
\* is therefore either announced in a post list or waited for with epoll.
NoStall ==
    /\ \A s \in Server :
         Open(sc[s]) /\ sc[s].status = "Normal" /\ sc[s].send # <<>> =>
           sc[s].writable \/ (sc[s].post # {} /\ \E i \in 1..Len(postS) : postS[i] = s)
    /\ \A c \in Client :
         Live(c) /\ cc[c].requests # <<>> /\ Done(Head(cc[c].requests)) =>
           cc[c].writable \/ ("Write" \in cc[c].post /\ \E i \in 1..Len(postA) : postA[i] = c)

\* On a new connection AUTH, READONLY and SELECT come before any request of a
\* client, also when it is a request that opened the connection.
HandshakeFirst ==
    \A s \in Server : \A i, j \in 1..Len(Queue(s)) :
      i < j /\ Queue(s)[j] = Setup => Queue(s)[i] \in Inner

\* ASKING is good for the next command only: on the connection it is followed
\* at once by a request that was redirected (redirect() queues the two by two
\* calls of handleRequest, on a connection it may have opened just before).
AskingAdjacent ==
    \A s \in Server : \A i \in 1..Len(Queue(s)) :
      Queue(s)[i] = Asking =>
        /\ i < Len(Queue(s))
        /\ Queue(s)[i + 1] \in Req
        /\ redirects[Queue(s)[i + 1]] > 0

\* What is seen of the clients: the proxy serves them as ProxyService says.
Service == INSTANCE ProxyService WITH
    asked <- [c \in Client |-> cc[c].parsed],
    answer <- res,
    shown <- out,
    open <- [c \in Client |-> cc[c].good /\ cc[c].fd # "closed"]

ServiceSpec == Service!Spec

\* Every request that is passed on is answered, or its client is closed, even
\* if a server never answers: ServerTimeout, the closing of connections and
\* the check of failed servers leave no request behind.
Answered ==
    \A r \in Req : delivered[r] ~> (Done(r) \/ ~Live(r[1]))

\* postEvent() returns: closing connections and answering their requests fill
\* the two post lists alternately, but not for ever.
LoopReturns == []<>(pc = "wait")
=============================================================================
