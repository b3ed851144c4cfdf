---------------------------- MODULE PrivateProofs ----------------------------
(***************************************************************************)
(* What the clients of Session may rely on, proved: a private connection   *)
(* serves one client at a time and is in one list at most (Exclusive),     *)
(* nobody inherits a transaction or a subscription (Isolated), and the     *)
(* counters of a client agree with the server (InStep).                    *)
(*                                                                         *)
(* This holds where Orderly does: connections do not fail, no client mixes *)
(* transactions and subscriptions, and the commands that open or end one   *)
(* are not refused.  Without that it does not: when a WATCH that others    *)
(* follow is refused, the connection is put back before these are          *)
(* answered, and put back again by the next answer.                        *)
(*                                                                         *)
(* The invariant has two parts that depend on different things.  Core is   *)
(* about clients, counters and requests on connections: what is queued on  *)
(* a connection is for the client it is attached to, a request that blocks *)
(* its client is the last, and the counters and the session differ by      *)
(* exactly what is still queued.  Then a connection is put back by the     *)
(* answer to the last request on it, and the session has ended.  InLists   *)
(* is about the two lists and their common link.                           *)
(*                                                                         *)
(* Core is stated of the requests q[k] on each connection k, and not of    *)
(* sent and send: while write() goes through send it has taken requests    *)
(* from there that it has not put into sent yet.                           *)
(***************************************************************************)
EXTENDS SessionProofs, SequenceTheorems

\* Under these conditions the connection of a client is its own.
Orderly ==
    /\ ~ServerFails
    /\ \A c \in Client : \/ "subscribe" \notin Uses[c]
                         \/ Uses[c] \cap {"watch", "multi"} = {}
    /\ Refusable \cap {"watch", "multi", "subscribe", "exec", "discard"} = {}
    /\ Deniable \cap {"watch", "multi", "subscribe"} = {}

-----------------------------------------------------------------------------
(* The invariant.                                                          *)

\* Client c is served.
Alive(h, c) == h.cc[c].open /\ h.cc[c].good

\* The requests on each connection.
Queues == [Conn -> Seq(Req)]

\* Those of handler h: what awaits its answer, then what waits to be written.
QueuesOf(h) == [k \in Conn |-> h.sc[k].sent \o h.sc[k].send]

\* Request r is on connection k.
On(q, k, r) == Contains(q[k], r)

\* A queue has no request twice.
Once(q) == \A k \in Conn : \A i, j \in 1..Len(q[k]) : q[k][i] = q[k][j] => i = j

\* The numbers of the requests of client x that have been read.
ReadOf(x) == (1..x.parsed) \cup (MaxReq + 1..MaxReq + x.messages)

\* A request is on one connection, has been read, and its client waits for it; the
\* one attached to a private connection, or none that is open.
Pending(h, q) ==
    \A k \in Conn, r \in Req : On(q, k, r) =>
       /\ \A j \in Conn : On(q, j, r) => j = k
       /\ r[2] \in ReadOf(h.cc[r[1]])
       /\ Alive(h, r[1]) /\ h.req[r].cmd \notin Empty =>
            Contains(h.cc[r[1]].requests, r) /\ h.req[r].res = "none"
       /\ k \in Private => IF h.sc[k].good THEN h.sc[k].acc = r[1] ELSE ~h.cc[r[1]].open
       /\ k = Shared => h.req[r].cmd \notin RequirePrivate

\* A request that blocks its client is the only such one, and nothing follows it
\* on a private connection; on the shared one it is from a client without another.
Blocked(h, q) ==
    \A k \in Conn, r \in Req :
       On(q, k, r) /\ Alive(h, r[1]) /\ h.req[r].cmd \in Blocking =>
         /\ h.cc[r[1]].block
         /\ \A j \in Conn, t \in Req :
               On(q, j, t) /\ t[1] = r[1] /\ h.req[t].cmd \in Blocking => t = r
         /\ k \in Private => q[k][Len(q[k])] = r
         /\ k = Shared => h.cc[r[1]].conn = None

\* Clients and connections are attached to each other; a client that was closed
\* has nothing left.
Attached(h) ==
    /\ \A c \in Client, k \in Conn : h.cc[c].conn = k <=> h.sc[k].acc = c
    /\ \A k \in Conn : h.sc[k].acc # None => k \in Private /\ h.sc[k].good
    /\ \A c \in Client : ~h.cc[c].open => h.cc[c].conn = None /\ h.cc[c].requests = <<>>

\* A client with nothing open.
Nothing(x) ==
    /\ x.pendWatch = 0 /\ x.watch = 0 /\ x.pendMulti = 0 /\ x.multi = 0
    /\ x.pendSub = 0 /\ x.sub = 0

\* A client whose session is s, with w WATCH, m MULTI and n SUBSCRIBE queued.
InSync(x, s, w, m, n) ==
    /\ x.pendWatch >= x.watch + w /\ x.pendMulti >= x.multi + m /\ x.pendSub >= n
    /\ x.multi <= 1 /\ (x.multi > 0 <=> s.multi)
    /\ s.watch => x.watch > 0
    /\ x.sub = s.subs

\* Client c uses transactions or subscriptions.
OneUse(x, c) ==
    \/ "subscribe" \notin Uses[c] /\ x.pendSub = 0 /\ x.sub = 0
    \/ /\ Uses[c] \cap {"watch", "multi"} = {}
       /\ x.pendWatch = 0 /\ x.watch = 0 /\ x.pendMulti = 0 /\ x.multi = 0

\* The requests cmd on connection k.
Queued(h, q, k, cmd) == {r \in Req : On(q, k, r) /\ h.req[r].cmd = cmd}

\* How many they are.
Count(h, q, k, cmd) == Cardinality(Queued(h, q, k, cmd))

\* The counters of a client served agree with the server, and with what is on its
\* connection; a client without one has nothing open.
Counts(h, s, q) ==
    \A c \in Client : Alive(h, c) =>
      LET x == h.cc[c] IN
        /\ OneUse(x, c)
        /\ IF x.conn = None THEN Nothing(x)
           ELSE InSync(x, s[x.conn], Count(h, q, x.conn, "watch"),
                       Count(h, q, x.conn, "multi"), Count(h, q, x.conn, "subscribe"))

\* A client that is attached with nothing open waits for a blocking request.
Attending(h, q, c) ==
    Alive(h, c) /\ h.cc[c].conn # None /\ ~Holds(h.cc[c]) =>
      /\ h.cc[c].block
      /\ \A r \in Req : On(q, h.cc[c].conn, r) => h.req[r].cmd \in Blocking

\* The server keeps nothing on a connection that is not attached, unless it is
\* about to be closed.
Cleared(h, s) ==
    \A k \in Conn : h.sc[k].acc = None /\ (Open(h.sc[k]) => h.sc[k].good) => s[k] = Clean

\* Requests are such as their clients use, and what was not delivered is not
\* answered, unless it has no body.
Known(h) ==
    \A r \in Req :
      /\ h.req[r].cmd \in Uses[r[1]] \cup {"none", "submsg"}
      /\ ~h.req[r].delivered /\ h.req[r].cmd \notin Empty => h.req[r].res = "none"

\* The part of the invariant that speaks of the requests as q has them: while write()
\* moves them from one list to the other q is not what the two lists hold.
Core(h, s, q) ==
    /\ State(h) /\ s \in [Conn -> Sessions] /\ q \in Queues
    /\ Once(q) /\ Pending(h, q) /\ Blocked(h, q) /\ Attached(h) /\ Counts(h, s, q)
    /\ Cleared(h, s) /\ Known(h)

\* A connection that has events: to be written, or to be closed as its client was.
Posted(h) ==
    \A k \in Conn :
      /\ h.sc[k].good =>
           /\ h.sc[k].post \subseteq {"Write"}
           /\ h.sc[k].post # {} => h.sc[k].send # <<>>
      /\ Open(h.sc[k]) /\ ~h.sc[k].good => k # Shared /\ "Error" \in h.sc[k].post
      /\ ~Open(h.sc[k]) => /\ h.sc[k].send = <<>> /\ h.sc[k].sent = <<>>
                           /\ h.sc[k].post = {} /\ h.sc[k].acc = None

\* List l runs through the connections of w.
Runs(h, l, w) ==
    /\ w \in Seq(Conn)
    /\ \A i, j \in 1..Len(w) : w[i] = w[j] => i = j
    /\ l.size = Len(w)
    /\ l.head = IF w = <<>> THEN None ELSE w[1]
    /\ l.tail = IF w = <<>> THEN None ELSE w[Len(w)]
    /\ \A i \in 1..Len(w) : h.sc[w[i]].next = IF i = Len(w) THEN None ELSE w[i + 1]

\* The idle connections are those of v, and those with events those of w.
InLists(h, v, w) ==
    /\ Runs(h, h.idle, v) /\ Runs(h, h.postS, w)
    /\ \A k \in Conn : Contains(w, k) <=> h.sc[k].post # {}
    /\ \A k \in Conn : Contains(v, k) =>
         /\ k \in Private /\ h.sc[k].acc = None /\ h.sc[k].post = {}
         /\ h.sc[k].link # "none"
    /\ \A k \in Conn : ~Contains(v, k) /\ ~Contains(w, k) => h.sc[k].next = None

\* The invariant but for the lists.
Fit(h, s) ==
    /\ Core(h, s, QueuesOf(h))
    /\ \A c \in Client : Attending(h, QueuesOf(h), c)
    /\ Posted(h)

\* The invariant as an action of the clients finds it.
Good(h, s) ==
    /\ HandlerInv(h, {}, Conn)
    /\ Fit(h, s)
    /\ \E v, w : InLists(h, v, w)

-----------------------------------------------------------------------------
(* Sequences without repetition.                                           *)

\* p is q without r, in the same order: what was the last still is.
Less(q, p, r) ==
    /\ p \in Seq(Req)
    /\ \A i, j \in 1..Len(p) : p[i] = p[j] => i = j
    /\ \A t : Contains(p, t) <=> Contains(q, t) /\ t # r
    /\ \A t : t # r /\ Contains(q, t) /\ q[Len(q)] = t => p[Len(p)] = t

\* p is q and then r.
More(q, p, r) ==
    /\ p \in Seq(Req)
    /\ \A i, j \in 1..Len(p) : p[i] = p[j] => i = j
    /\ \A t : Contains(p, t) <=> Contains(q, t) \/ t = r
    /\ p[Len(p)] = r

\* The first element of the second part is left out.
LEMMA LessMiddle ==
    ASSUME NEW a \in Seq(Req), NEW b \in Seq(Req), b # <<>>,
           \A i, j \in 1..Len(a \o b) : (a \o b)[i] = (a \o b)[j] => i = j
    PROVE  Less(a \o b, a \o Tail(b), Head(b)) /\ Contains(a \o b, Head(b))
<1> DEFINE q == a \o b
           p == a \o Tail(b)
           r == Head(b)
           n == Len(a)
<1>1. /\ n \in Nat /\ Len(b) \in Nat /\ Len(b) >= 1
      /\ q \in Seq(Req) /\ Len(q) = n + Len(b)
      /\ p \in Seq(Req) /\ Len(p) = n + (Len(b) - 1)
  OBVIOUS
<1>2. /\ \A i \in 1..n : q[i] = a[i] /\ p[i] = a[i]
      /\ q[n + 1] = r
      /\ \A i \in 1..Len(b) - 1 : q[n + 1 + i] = b[i + 1] /\ p[n + i] = b[i + 1]
  <2>1. \A i \in 1..Len(b) - 1 : Tail(b)[i] = b[i + 1]
    OBVIOUS
  <2>2. \A i \in 1..n : q[i] = a[i] /\ p[i] = a[i]
    OBVIOUS
  <2>3. q[n + 1] = r
    BY <1>1
  <2>4. \A i \in 1..Len(b) - 1 : q[n + 1 + i] = b[i + 1]
    BY <1>1
  <2>5. \A i \in 1..Len(b) - 1 : p[n + i] = b[i + 1]
    BY <1>1, <2>1
  <2> QED BY <2>2, <2>3, <2>4, <2>5
<1> HIDE DEF q, p, r, n
<1> DEFINE m(i) == IF i <= n THEN i ELSE i + 1
<1>3. \A i \in 1..Len(p) : m(i) \in 1..Len(q) /\ p[i] = q[m(i)] /\ m(i) # n + 1
  <2> SUFFICES ASSUME NEW i \in 1..Len(p)
               PROVE  m(i) \in 1..Len(q) /\ p[i] = q[m(i)] /\ m(i) # n + 1
    OBVIOUS
  <2>1. CASE i <= n
    BY <1>1, <1>2, <2>1
  <2>2. CASE ~(i <= n)
    <3>1. i - n \in 1..Len(b) - 1 /\ i = n + (i - n) /\ i + 1 = n + 1 + (i - n)
      BY <1>1, <2>2
    <3>2. \A l \in 1..Len(b) - 1 : i = n + l /\ i + 1 = n + 1 + l => p[i] = q[i + 1]
      BY <1>2
    <3>3. p[i] = q[i + 1]
      BY ONLY <3>1, <3>2
    <3> QED BY <1>1, <2>2, <3>3
  <2> QED BY <2>1, <2>2
<1>4. \A j \in 1..Len(q) : j # n + 1 => \E i \in 1..Len(p) : p[i] = q[j] /\ m(i) = j
  <2> SUFFICES ASSUME NEW j \in 1..Len(q), j # n + 1
               PROVE  \E i \in 1..Len(p) : p[i] = q[j] /\ m(i) = j
    OBVIOUS
  <2>1. CASE j <= n
    <3>1. j \in 1..Len(p) /\ j \in 1..n /\ m(j) = j
      BY <1>1, <2>1
    <3> QED BY <1>2, <3>1
  <2>2. CASE ~(j <= n)
    <3>1. j - 1 \in 1..Len(p) /\ m(j - 1) = j
      BY <1>1, <2>2
    <3> QED BY <1>3, <3>1
  <2> QED BY <2>1, <2>2
<1>5. n + 1 \in 1..Len(q) /\ \A j \in 1..Len(q) : q[j] = r => j = n + 1
  BY <1>1, <1>2 DEF q
<1>6. \A i, j \in 1..Len(p) : p[i] = p[j] => i = j
  <2> TAKE i, j \in 1..Len(p)
  <2>1. p[i] = p[j] => m(i) = m(j)
    BY <1>3 DEF q
  <2> QED BY <1>1, <2>1
<1>7. \A t : Contains(p, t) <=> Contains(q, t) /\ t # r
  <2> TAKE t
  <2>1. ASSUME Contains(p, t) PROVE Contains(q, t) /\ t # r
    BY <1>3, <1>5, <2>1 DEF Contains
  <2>2. ASSUME Contains(q, t), t # r PROVE Contains(p, t)
    BY <1>2, <1>4, <2>2 DEF Contains
  <2> QED BY <2>1, <2>2
<1>8. \A t : t # r /\ Contains(q, t) /\ q[Len(q)] = t => p[Len(p)] = t
  <2> SUFFICES ASSUME q[Len(q)] # r PROVE p[Len(p)] = q[Len(q)]
    OBVIOUS
  <2>1. Len(q) \in 1..Len(q) /\ Len(q) # n + 1
    BY <1>1, <1>2
  <2>2. CASE Len(p) <= n
    BY <1>1, <2>1, <2>2
  <2>3. CASE ~(Len(p) <= n)
    BY <1>1, <1>3, <2>3
  <2> QED BY <2>2, <2>3
<1>9. Contains(q, r)
  BY <1>2, <1>5 DEF Contains
<1> QED BY <1>1, <1>6, <1>7, <1>8, <1>9 DEF Less, q, p, r

\* The first element is left out.
LEMMA LessHead ==
    ASSUME NEW a \in Seq(Req), NEW b \in Seq(Req), a # <<>>,
           \A i, j \in 1..Len(a \o b) : (a \o b)[i] = (a \o b)[j] => i = j
    PROVE  /\ Less(a \o b, Tail(a) \o b, Head(a)) /\ Contains(a \o b, Head(a))
           /\ (a \o b)[1] = Head(a) /\ Len(a \o b) \in Nat /\ Len(a \o b) >= 1
<1> DEFINE q == a \o b
<1>1. q \in Seq(Req) /\ q # <<>> /\ <<>> \in Seq(Req) /\ Head(q) = Head(a) /\ q[1] = Head(a)
  <2>1. Len(a) \in Nat /\ Len(a) >= 1 /\ Len(b) \in Nat /\ Len(q) = Len(a) + Len(b)
    OBVIOUS
  <2>2. q[1] = a[1] /\ Head(a) = a[1]
    BY <2>1
  <2>3. q \in Seq(Req) /\ Len(q) # 0
    BY <2>1
  <2> HIDE DEF q
  <2>4. q # <<>> /\ Head(q) = q[1]
    BY <2>3
  <2> QED BY <2>2, <2>3, <2>4
<1>2. Tail(q) = Tail(a) \o b
  <2>1. /\ Len(a) \in Nat /\ Len(a) >= 1 /\ Len(b) \in Nat
        /\ Tail(a) \in Seq(Req) /\ Len(Tail(a)) = Len(a) - 1
        /\ Tail(q) \in Seq(Req) /\ Len(q) = Len(a) + Len(b) /\ Len(Tail(q)) = Len(q) - 1
    BY <1>1
  <2>2. Tail(a) \o b \in Seq(Req) /\ Len(Tail(a) \o b) = Len(Tail(q))
    BY <2>1
  <2>3. ASSUME NEW i \in 1..Len(Tail(q)) PROVE Tail(q)[i] = (Tail(a) \o b)[i]
    <3>1. Tail(q)[i] = q[i + 1]
      BY <1>1, <2>1
    <3>2. CASE i <= Len(a) - 1
      BY <2>1, <3>1, <3>2
    <3>3. CASE ~(i <= Len(a) - 1)
      <4>1. q[i + 1] = b[i + 1 - Len(a)]
        BY <2>1, <3>3
      <4>2. (Tail(a) \o b)[i] = b[i - (Len(a) - 1)]
        BY <2>1, <3>3
      <4>3. i + 1 - Len(a) = i - (Len(a) - 1)
        BY <2>1
      <4> QED BY <3>1, <4>1, <4>2, <4>3
    <3> QED BY <3>2, <3>3
  <2> QED BY <2>1, <2>2, <2>3, SeqEqual
<1>3. <<>> \o q = q /\ <<>> \o Tail(q) = Tail(q)
  <2>1. Tail(q) \in Seq(Req)
    BY <1>1
  <2> HIDE DEF q
  <2> QED BY <1>1, <2>1
<1>4. Less(<<>> \o q, <<>> \o Tail(q), Head(q)) /\ Contains(<<>> \o q, Head(q))
  <2>1. \A i, j \in 1..Len(q) : q[i] = q[j] => i = j
    OBVIOUS
  <2> HIDE DEF q
  <2> QED BY <1>1, <1>3, <2>1, LessMiddle
<1>5. Len(q) \in Nat /\ Len(q) >= 1
  BY <1>1
<1> QED BY <1>1, <1>2, <1>3, <1>4, <1>5

\* An element is added.
LEMMA MoreIs ==
    ASSUME NEW q \in Seq(Req), \A i, j \in 1..Len(q) : q[i] = q[j] => i = j,
           NEW r \in Req, ~Contains(q, r)
    PROVE  More(q, Append(q, r), r)
<1> DEFINE p == Append(q, r)
<1>1. /\ p \in Seq(Req) /\ Len(q) \in Nat /\ Len(p) = Len(q) + 1
      /\ \A i \in 1..Len(q) : p[i] = q[i]
      /\ p[Len(q) + 1] = r
  OBVIOUS
<1>2. \A i \in 1..Len(q) : q[i] # r
  BY DEF Contains
<1> HIDE DEF p
<1>3. \A i \in 1..Len(p) : i \in 1..Len(q) \/ i = Len(q) + 1
  BY <1>1
<1>4. \A i, j \in 1..Len(p) : p[i] = p[j] => i = j
  BY <1>1, <1>2, <1>3
<1>5. \A t : Contains(p, t) <=> Contains(q, t) \/ t = r
  BY <1>1, <1>3 DEF Contains
<1>6. p[Len(p)] = r
  BY <1>1
<1> QED BY <1>1, <1>4, <1>5, <1>6 DEF More, p

-----------------------------------------------------------------------------
(* Counters.                                                               *)

\* Connections, clients and commands are what they are used as.
LEMMA Constants ==
    /\ Private \subseteq Conn /\ Shared \in Conn /\ Shared \notin Private
    /\ None \notin Conn /\ None \notin Client
    /\ \A k \in Conn : k \in Private \/ k = Shared
    /\ \A r \in Req : r[1] \in Client
    /\ \A c \in Client : Uses[c] \subseteq Command
    /\ IsFiniteSet(Req)
<1>1. IsFiniteSet(Req)
  <2>1. MaxReq + MaxMsg \in Nat
    BY SessionAssumption
  <2>2. IsFiniteSet(1..MaxReq + MaxMsg)
    BY <2>1, FS_Interval
  <2> QED BY <2>2, SessionAssumption, FS_Product DEF Req
<1>2. \A r \in Req : r[1] \in Client
  BY DEF Req
<1> QED BY <1>1, <1>2, SessionAssumption DEF Conn

\* The fields of a client that its answers do not concern.
Apart(x, y) ==
    /\ y.open = x.open /\ y.good = x.good /\ y.requests = x.requests
    /\ y.parsed = x.parsed /\ y.messages = x.messages /\ y.conn = x.conn

\* Client y has these counters.
HasCounters(y, pendWatch, watch, pendMulti, multi, pendSub, sub) ==
    /\ y.pendWatch = pendWatch /\ y.watch = watch
    /\ y.pendMulti = pendMulti /\ y.multi = multi
    /\ y.pendSub = pendSub /\ y.sub = sub

\* The counters of y are those of x.
SameCounters(x, y) ==
    HasCounters(y, x.pendWatch, x.watch, x.pendMulti, x.multi, x.pendSub, x.sub)

\* Client x has become y, but for its events.
SameAs(x, y) == Apart(x, y) /\ y.block = x.block /\ SameCounters(x, y)

\* What is open does not depend on more.
LEMMA SameHolds ==
    ASSUME NEW x, NEW y, SameCounters(x, y)
    PROVE  Holds(x) <=> Holds(y)
BY DEF SameCounters, HasCounters, Holds, InTransaction, InSub

\* The cases of handleResponse's last switch.
LEMMA RespondedCases ==
    ASSUME NEW x, NEW cmd, NEW res, NEW direct \in BOOLEAN,
           NEW y, y = Unblocked(x, cmd), NEW z, z = Responded(x, cmd, res, direct)
    PROVE  /\ cmd = "watch" => z = IF res = "ok" THEN [y EXCEPT !.watch = @ + 1]
                                   ELSE [y EXCEPT !.pendWatch = Minus(@, 1)]
           /\ cmd = "multi" => z = IF res = "ok" THEN [y EXCEPT !.multi = @ + 1]
                                   ELSE [y EXCEPT !.pendMulti = Minus(@, 1)]
           /\ cmd = "unwatch" => z = IF res = "ok" THEN Unwatch(y) ELSE y
           /\ cmd \in {"exec", "discard"} =>
                z = IF y.multi > 0 /\ ~direct THEN DecrMulti(Unwatch(y)) ELSE y
           /\ cmd = "subscribe" => z = IF direct THEN [y EXCEPT !.pendSub = Minus(@, 1)] ELSE y
           /\ cmd \notin {"watch", "multi", "unwatch", "exec", "discard", "subscribe"} => z = y
<1>1. CASE cmd = "watch"
  BY <1>1 DEF Responded
<1>2. CASE cmd = "multi"
  BY <1>2 DEF Responded
<1>3. CASE cmd = "unwatch"
  BY <1>3 DEF Responded
<1>4. CASE cmd \in {"exec", "discard"}
  BY <1>4 DEF Responded
<1>5. CASE cmd = "subscribe"
  BY <1>5 DEF Responded
<1>6. CASE cmd \notin {"watch", "multi", "unwatch", "exec", "discard", "subscribe"}
  BY <1>6 DEF Responded
<1> QED BY <1>1, <1>2, <1>3, <1>4, <1>5, <1>6

\* What each of its changes is, and that of Unblocked.
LEMMA ChangesAre ==
    ASSUME NEW x \in AcceptConn, NEW y
    PROVE  /\ y = [x EXCEPT !.watch = @ + 1] =>
                /\ Apart(x, y) /\ y.block = x.block
                /\ HasCounters(y, x.pendWatch, x.watch + 1, x.pendMulti, x.multi, x.pendSub, x.sub)
           /\ y = [x EXCEPT !.pendWatch = Minus(@, 1)] =>
                /\ Apart(x, y) /\ y.block = x.block
                /\ HasCounters(y, Minus(x.pendWatch, 1), x.watch, x.pendMulti, x.multi, x.pendSub, x.sub)
           /\ y = [x EXCEPT !.multi = @ + 1] =>
                /\ Apart(x, y) /\ y.block = x.block
                /\ HasCounters(y, x.pendWatch, x.watch, x.pendMulti, x.multi + 1, x.pendSub, x.sub)
           /\ y = [x EXCEPT !.pendMulti = Minus(@, 1)] =>
                /\ Apart(x, y) /\ y.block = x.block
                /\ HasCounters(y, x.pendWatch, x.watch, Minus(x.pendMulti, 1), x.multi, x.pendSub, x.sub)
           /\ y = [x EXCEPT !.pendSub = Minus(@, 1)] =>
                /\ Apart(x, y) /\ y.block = x.block
                /\ HasCounters(y, x.pendWatch, x.watch, x.pendMulti, x.multi, Minus(x.pendSub, 1), x.sub)
           /\ y = Unwatch(x) =>
                /\ Apart(x, y) /\ y.block = x.block
                /\ HasCounters(y, Minus(x.pendWatch, x.watch), 0, x.pendMulti, x.multi, x.pendSub, x.sub)
           /\ y = DecrMulti(x) =>
                /\ Apart(x, y) /\ y.block = x.block
                /\ HasCounters(y, x.pendWatch, x.watch, Minus(x.pendMulti, 1), Minus(x.multi, 1), x.pendSub, x.sub)
           /\ \A cmd : y = Unblocked(x, cmd) =>
                Apart(x, y) /\ y.block = (x.block /\ cmd \notin Blocking) /\ SameCounters(x, y)
BY DEF AcceptConn, Apart, HasCounters, SameCounters, Unwatch, DecrMulti, Unblocked

\* A client with nothing open has ended its session.
LEMMA NothingHeld ==
    ASSUME NEW x \in AcceptConn, NEW s \in Sessions, NEW w \in Nat, NEW m \in Nat, NEW n \in Nat,
           InSync(x, s, w, m, n), ~Holds(x)
    PROVE  Nothing(x) /\ s = Clean
<1>1. /\ x.pendWatch = 0 /\ x.pendMulti = 0 /\ x.pendSub = 0 /\ x.sub = 0
      /\ x.watch = 0 /\ x.multi = 0
  BY DEF Holds, InTransaction, InSub, InSync, AcceptConn
<1>2. s.multi = FALSE /\ s.watch = FALSE /\ s.subs = 0
  BY <1>1 DEF InSync, Sessions
<1> QED BY <1>1, <1>2 DEF Nothing, Sessions, Clean

\* What the server answers, case by case.
LEMMA ServedCases ==
    ASSUME NEW s \in Sessions, NEW cmd, NEW v, v = Served(s, cmd)
    PROVE  /\ s.multi /\ cmd \notin {"exec", "discard", "multi", "watch"} => v = <<"queued", s>>
           /\ s.multi /\ cmd \in {"multi", "watch"} => v = <<"err", s>>
           /\ s.multi /\ cmd = "exec" => v = <<"data", Clean>>
           /\ s.multi /\ cmd = "discard" => v = <<"ok", Clean>>
           /\ ~s.multi /\ s.subs > 0 /\ cmd \notin {"subscribe", "unsubscribe"} => v = <<"err", s>>
           /\ ~s.multi /\ cmd = "subscribe" => v = <<"sub", [s EXCEPT !.subs = @ + 1]>>
           /\ ~s.multi /\ cmd = "unsubscribe" => v = <<"unsub", [s EXCEPT !.subs = Minus(@, 1)]>>
           /\ ~s.multi /\ s.subs = 0 =>
                /\ cmd = "multi" => v = <<"ok", [s EXCEPT !.multi = TRUE]>>
                /\ cmd = "watch" => v = <<"ok", [s EXCEPT !.watch = TRUE]>>
                /\ cmd = "unwatch" => v = <<"ok", [s EXCEPT !.watch = FALSE]>>
                /\ cmd \in {"exec", "discard"} => v = <<"err", s>>
                /\ cmd \notin {"multi", "watch", "unwatch", "exec", "discard", "subscribe",
                               "unsubscribe"} => v = <<"data", s>>
<1> DEFINE queued == <<"queued", s>>
           err == <<"err", s>>
           exec == <<"data", Clean>>
           discard == <<"ok", Clean>>
           sub == <<"sub", [s EXCEPT !.subs = @ + 1]>>
           unsub == <<"unsub", [s EXCEPT !.subs = Minus(@, 1)]>>
           multi == <<"ok", [s EXCEPT !.multi = TRUE]>>
           watch == <<"ok", [s EXCEPT !.watch = TRUE]>>
           unwatch == <<"ok", [s EXCEPT !.watch = FALSE]>>
           data == <<"data", s>>
           in == s.multi
           n == s.subs
<1>1. v = CASE in /\ cmd \notin {"exec", "discard", "multi", "watch"} -> queued
            [] in /\ cmd \in {"multi", "watch"} -> err
            [] in /\ cmd = "exec" -> exec
            [] in /\ cmd = "discard" -> discard
            [] ~in /\ n > 0 /\ cmd \notin {"subscribe", "unsubscribe"} -> err
            [] ~in /\ cmd = "subscribe" -> sub
            [] ~in /\ cmd = "unsubscribe" -> unsub
            [] ~in /\ n = 0 /\ cmd = "multi" -> multi
            [] ~in /\ n = 0 /\ cmd = "watch" -> watch
            [] ~in /\ n = 0 /\ cmd = "unwatch" -> unwatch
            [] ~in /\ n = 0 /\ cmd \in {"exec", "discard"} -> err
            [] OTHER -> data
  BY DEF Served
<1>2. in \in BOOLEAN /\ n \in Nat
  BY DEF Sessions
<1> HIDE DEF queued, err, exec, discard, sub, unsub, multi, watch, unwatch, data, in, n
<1>3. /\ in /\ cmd \notin {"exec", "discard", "multi", "watch"} => v = queued
      /\ in /\ cmd \in {"multi", "watch"} => v = err
      /\ in /\ cmd = "exec" => v = exec
      /\ in /\ cmd = "discard" => v = discard
  BY <1>1, <1>2
<1>4. /\ ~in /\ n > 0 /\ cmd \notin {"subscribe", "unsubscribe"} => v = err
      /\ ~in /\ cmd = "subscribe" => v = sub
      /\ ~in /\ cmd = "unsubscribe" => v = unsub
  BY <1>1, <1>2
<1>5. ~in /\ n = 0 =>
        /\ cmd = "multi" => v = multi
        /\ cmd = "watch" => v = watch
        /\ cmd = "unwatch" => v = unwatch
        /\ cmd \in {"exec", "discard"} => v = err
        /\ cmd \notin {"multi", "watch", "unwatch", "exec", "discard", "subscribe",
                       "unsubscribe"} => v = data
  BY <1>1, <1>2
<1> QED BY <1>3, <1>4, <1>5 DEF queued, err, exec, discard, sub, unsub, multi, watch, unwatch, data, in, n

\* What the server answers in session s.
Reply(s, cmd, a) ==
    \/ a = Served(s, cmd)
    \/ cmd \in Refusable /\ a = <<"err", s>>

\* The response that the handler is passed.
Res(a) == IF a[1] \in {"sub", "unsub"} THEN "data" ELSE a[1]

\* The cases of an answer.
LEMMA ReplyCases ==
    ASSUME Orderly, NEW s \in Sessions, NEW cmd, NEW a, Reply(s, cmd, a),
           cmd \in {"watch", "multi", "subscribe"} => s.subs = 0 \/ cmd = "subscribe",
           cmd = "subscribe" => ~s.multi
    PROVE  /\ a[1] \in {"ok", "data", "queued", "err", "sub", "unsub"} /\ a[2] \in Sessions
           /\ cmd = "watch" => IF s.multi THEN a = <<"err", s>>
                               ELSE a = <<"ok", [s EXCEPT !.watch = TRUE]>>
           /\ cmd = "multi" => IF s.multi THEN a = <<"err", s>>
                               ELSE a = <<"ok", [s EXCEPT !.multi = TRUE]>>
           /\ cmd = "subscribe" => a = <<"sub", [s EXCEPT !.subs = @ + 1]>>
           /\ cmd = "unwatch" => \/ a[1] # "ok" /\ a[2] = s
                                 \/ a = <<"ok", [s EXCEPT !.watch = FALSE]>>
           /\ cmd \in {"exec", "discard"} =>
                IF s.multi THEN a[2] = Clean ELSE a = <<"err", s>>
           /\ cmd = "unsubscribe" => \/ a[1] \notin {"sub", "unsub"} /\ a[2] = s
                                     \/ a = <<"unsub", [s EXCEPT !.subs = Minus(@, 1)]>>
           /\ cmd \notin {"watch", "multi", "subscribe", "unwatch", "exec", "discard",
                          "unsubscribe"} => a[2] = s
           /\ a[1] \in {"sub", "unsub"} => cmd \in {"subscribe", "unsubscribe"}
<1>1. a[1] \in {"ok", "data", "queued", "err", "sub", "unsub"} /\ a[2] \in Sessions
  BY ServedIs DEF Reply
<1>2. s.multi \in BOOLEAN /\ s.subs \in Nat
  BY DEF Sessions
<1>3. CASE a = <<"err", s>> /\ cmd \in Refusable
  <2>1. cmd \notin {"watch", "multi", "subscribe", "exec", "discard"}
    BY <1>3 DEF Orderly
  <2> QED BY <1>1, <1>3, <2>1
<1>4. CASE a = Served(s, cmd)
  <2>1. CASE s.multi
    BY <1>1, <1>4, <2>1, ServedCases
  <2>2. CASE ~s.multi /\ s.subs > 0
    BY <1>1, <1>4, <2>2, ServedCases
  <2>3. CASE ~s.multi /\ s.subs = 0
    BY <1>1, <1>4, <2>3, ServedCases
  <2> QED BY <1>2, <2>1, <2>2, <2>3
<1> QED BY <1>3, <1>4 DEF Reply

\* What ConnectConnection::handleResponse makes of a client.
LEMMA CountedCases ==
    ASSUME NEW x \in AcceptConn, NEW cmd, NEW reply, NEW subs \in Nat, NEW y,
           y = IF InSub(x) THEN Counted(x, cmd, reply, subs) ELSE x
    PROVE  /\ y \in AcceptConn /\ Apart(x, y) /\ y.block = x.block
           /\ y.pendWatch = x.pendWatch /\ y.watch = x.watch
           /\ y.pendMulti = x.pendMulti /\ y.multi = x.multi
           /\ ~InSub(x) => y = x
           /\ InSub(x) /\ reply = "sub" => y.pendSub = Minus(x.pendSub, 1) /\ y.sub = subs
           /\ InSub(x) /\ reply = "unsub" => y.pendSub = x.pendSub /\ y.sub = subs
           /\ reply \notin {"sub", "unsub"} /\ cmd # "subscribe" => y = x
<1>1. y \in AcceptConn
  BY CountedIs DEF Recounted, SameClient
<1>2. CASE ~InSub(x)
  BY <1>1, <1>2 DEF Apart
<1>3. CASE InSub(x) /\ reply = "sub"
  BY <1>1, <1>3 DEF Apart, Counted, AcceptConn
<1>4. CASE InSub(x) /\ reply = "unsub"
  BY <1>1, <1>4 DEF Apart, Counted, AcceptConn
<1>5. CASE InSub(x) /\ reply \notin {"sub", "unsub"}
  BY <1>1, <1>5 DEF Apart, Counted, AcceptConn
<1> QED BY <1>2, <1>3, <1>4, <1>5

\* Unblocking makes another client.
LEMMA UnblockedIs ==
    ASSUME NEW y \in AcceptConn, NEW cmd
    PROVE  Unblocked(y, cmd) \in AcceptConn
<1> DEFINE b == y.block /\ cmd \notin Blocking
<1>1. b \in BOOLEAN
  OBVIOUS
<1>2. Unblocked(y, cmd) = [y EXCEPT !.block = b]
  BY DEF Unblocked
<1> HIDE DEF b
<1> QED BY <1>1, <1>2 DEF AcceptConn

\* The client x of command cmd, its session and what is queued before and after.
Replied(x, c, s, cmd, a, y, z, w, m, n, w1, m1, n1) ==
    /\ c \in Client /\ x \in AcceptConn /\ OneUse(x, c) /\ s \in Sessions
    /\ w \in Nat /\ m \in Nat /\ n \in Nat /\ InSync(x, s, w, m, n)
    /\ cmd \in Uses[c] \cup {"none", "submsg"}
    /\ w1 \in Nat /\ w1 + (IF cmd = "watch" THEN 1 ELSE 0) <= w
    /\ m1 \in Nat /\ m1 + (IF cmd = "multi" THEN 1 ELSE 0) <= m
    /\ n1 \in Nat /\ n1 + (IF cmd = "subscribe" THEN 1 ELSE 0) <= n
    /\ Reply(s, cmd, a)
    /\ y = IF InSub(x) THEN Counted(x, cmd, a[1], a[2].subs) ELSE x
    /\ z = Responded(y, cmd, Res(a), FALSE)

\* The answer that is read keeps client and server in step.
LEMMA ReplyCounts ==
    ASSUME Orderly, NEW x, NEW c, NEW s, NEW cmd, NEW a, NEW y, NEW z, NEW w, NEW m, NEW n,
           NEW w1, NEW m1, NEW n1, Replied(x, c, s, cmd, a, y, z, w, m, n, w1, m1, n1)
    PROVE  /\ z \in AcceptConn /\ Apart(x, z) /\ z.block = (x.block /\ cmd \notin Blocking)
           /\ OneUse(z, c) /\ InSync(z, a[2], w1, m1, n1)
           /\ cmd \notin Blocking /\ Holds(x) => Holds(z)
<1>0. /\ c \in Client /\ x \in AcceptConn /\ OneUse(x, c) /\ s \in Sessions
      /\ w \in Nat /\ m \in Nat /\ n \in Nat /\ InSync(x, s, w, m, n)
      /\ cmd \in Uses[c] \cup {"none", "submsg"}
      /\ w1 \in Nat /\ w1 + (IF cmd = "watch" THEN 1 ELSE 0) <= w
      /\ m1 \in Nat /\ m1 + (IF cmd = "multi" THEN 1 ELSE 0) <= m
      /\ n1 \in Nat /\ n1 + (IF cmd = "subscribe" THEN 1 ELSE 0) <= n
      /\ Reply(s, cmd, a)
      /\ y = IF InSub(x) THEN Counted(x, cmd, a[1], a[2].subs) ELSE x
      /\ z = Responded(y, cmd, Res(a), FALSE)
  BY DEF Replied
<1> USE <1>0
<1>1. /\ x.pendWatch \in Nat /\ x.watch \in Nat /\ x.pendMulti \in Nat /\ x.multi \in Nat
      /\ x.pendSub \in Nat /\ x.sub \in Nat /\ x.block \in BOOLEAN
  BY DEF AcceptConn
<1>20. /\ w \in Nat /\ m \in Nat /\ n \in Nat /\ w1 \in Nat /\ m1 \in Nat /\ n1 \in Nat
       /\ OneUse(x, c)
  OBVIOUS
<1>2. s.multi \in BOOLEAN /\ s.watch \in BOOLEAN /\ s.subs \in Nat
  BY DEF Sessions
<1>3. /\ x.pendWatch >= x.watch + w /\ x.pendMulti >= x.multi + m /\ x.pendSub >= n
      /\ x.multi <= 1 /\ (x.multi > 0 <=> s.multi) /\ (s.watch => x.watch > 0)
      /\ x.sub = s.subs
  BY DEF InSync
<1>4. /\ cmd \in {"watch", "multi"} => s.subs = 0 /\ ~InSub(x)
      /\ cmd = "subscribe" => ~s.multi /\ InSub(x)
      /\ s.multi => s.subs = 0 /\ ~InSub(x)
  <2>1. ASSUME cmd \in {"watch", "multi"} \/ s.multi PROVE x.pendSub = 0 /\ x.sub = 0
    <3>1. \/ "watch" \in Uses[c] \/ "multi" \in Uses[c]
          \/ x.multi > 0
      <4>1. CASE cmd \in {"watch", "multi"}
        BY <4>1
      <4>2. CASE s.multi
        BY <1>3, <4>2
      <4> QED BY <2>1, <4>1, <4>2
    <3> QED BY ONLY <1>1, <1>20, <3>1 DEF OneUse
  <2>2. ASSUME cmd = "subscribe" PROVE x.multi = 0 /\ x.pendSub > 0
    <3>1. n1 + 1 <= n /\ "subscribe" \in Uses[c]
      BY <2>2
    <3>2. x.multi = 0
      BY ONLY <1>0, <3>1 DEF OneUse
    <3> QED BY ONLY <1>1, <1>3, <1>20, <3>1, <3>2
  <2> QED BY <1>1, <1>2, <1>3, <2>1, <2>2 DEF InSub
<1>5. /\ a[1] \in {"ok", "data", "queued", "err", "sub", "unsub"} /\ a[2] \in Sessions
      /\ cmd = "watch" => IF s.multi THEN a = <<"err", s>>
                          ELSE a = <<"ok", [s EXCEPT !.watch = TRUE]>>
      /\ cmd = "multi" => IF s.multi THEN a = <<"err", s>>
                          ELSE a = <<"ok", [s EXCEPT !.multi = TRUE]>>
      /\ cmd = "subscribe" => a = <<"sub", [s EXCEPT !.subs = @ + 1]>>
      /\ cmd = "unwatch" => \/ a[1] # "ok" /\ a[2] = s
                            \/ a = <<"ok", [s EXCEPT !.watch = FALSE]>>
      /\ cmd \in {"exec", "discard"} => IF s.multi THEN a[2] = Clean ELSE a = <<"err", s>>
      /\ cmd = "unsubscribe" => \/ a[1] \notin {"sub", "unsub"} /\ a[2] = s
                                \/ a = <<"unsub", [s EXCEPT !.subs = Minus(@, 1)]>>
      /\ cmd \notin {"watch", "multi", "subscribe", "unwatch", "exec", "discard",
                     "unsubscribe"} => a[2] = s
      /\ a[1] \in {"sub", "unsub"} => cmd \in {"subscribe", "unsubscribe"}
  BY <1>4, ReplyCases
<1>6. a[2].subs \in Nat /\ a[2].multi \in BOOLEAN /\ a[2].watch \in BOOLEAN
  BY <1>5 DEF Sessions
<1>7. /\ y \in AcceptConn /\ Apart(x, y) /\ y.block = x.block
      /\ y.pendWatch = x.pendWatch /\ y.watch = x.watch
      /\ y.pendMulti = x.pendMulti /\ y.multi = x.multi
      /\ ~InSub(x) => y = x
      /\ InSub(x) /\ a[1] = "sub" => y.pendSub = Minus(x.pendSub, 1) /\ y.sub = a[2].subs
      /\ InSub(x) /\ a[1] = "unsub" => y.pendSub = x.pendSub /\ y.sub = a[2].subs
      /\ a[1] \notin {"sub", "unsub"} /\ cmd # "subscribe" => y = x
  BY <1>6, CountedCases
<1> DEFINE u == Unblocked(y, cmd)
<1>8. u \in AcceptConn /\ Apart(x, u) /\ u.block = (x.block /\ cmd \notin Blocking)
      /\ SameCounters(y, u)
  <2>1. u \in AcceptConn
    BY <1>7, UnblockedIs DEF u
  <2>2. Apart(y, u) /\ u.block = (y.block /\ cmd \notin Blocking) /\ SameCounters(y, u)
    BY <1>7, ChangesAre
  <2> QED BY <1>7, <2>1, <2>2 DEF Apart
<1>9. /\ u.pendWatch = x.pendWatch /\ u.watch = x.watch
      /\ u.pendMulti = x.pendMulti /\ u.multi = x.multi
      /\ u.pendSub = y.pendSub /\ u.sub = y.sub
  BY <1>7, <1>8 DEF SameCounters, HasCounters
<1>21. u = Unblocked(y, cmd)
  OBVIOUS
<1> HIDE DEF u
<1>10. /\ cmd = "watch" => z = IF Res(a) = "ok" THEN [u EXCEPT !.watch = @ + 1]
                               ELSE [u EXCEPT !.pendWatch = Minus(@, 1)]
       /\ cmd = "multi" => z = IF Res(a) = "ok" THEN [u EXCEPT !.multi = @ + 1]
                               ELSE [u EXCEPT !.pendMulti = Minus(@, 1)]
       /\ cmd = "unwatch" => z = IF Res(a) = "ok" THEN Unwatch(u) ELSE u
       /\ cmd \in {"exec", "discard"} => z = IF u.multi > 0 THEN DecrMulti(Unwatch(u)) ELSE u
       /\ cmd \notin {"watch", "multi", "unwatch", "exec", "discard"} => z = u
  <2>1. z = Responded(y, cmd, Res(a), FALSE) /\ FALSE \in BOOLEAN
    OBVIOUS
  <2>2. \A d \in BOOLEAN : z = Responded(y, cmd, Res(a), d) =>
           /\ cmd \in {"exec", "discard"} => z = IF u.multi > 0 /\ ~d THEN DecrMulti(Unwatch(u)) ELSE u
           /\ cmd = "subscribe" => z = IF d THEN [u EXCEPT !.pendSub = Minus(@, 1)] ELSE u
           /\ cmd \notin {"watch", "multi", "unwatch", "exec", "discard", "subscribe"} => z = u
    BY ONLY <1>21, RespondedCases
  <2>3. \A d \in BOOLEAN : z = Responded(y, cmd, Res(a), d) =>
           /\ cmd = "watch" => z = IF Res(a) = "ok" THEN [u EXCEPT !.watch = @ + 1]
                                   ELSE [u EXCEPT !.pendWatch = Minus(@, 1)]
           /\ cmd = "multi" => z = IF Res(a) = "ok" THEN [u EXCEPT !.multi = @ + 1]
                                   ELSE [u EXCEPT !.pendMulti = Minus(@, 1)]
           /\ cmd = "unwatch" => z = IF Res(a) = "ok" THEN Unwatch(u) ELSE u
    BY ONLY <1>21, RespondedCases
  <2> QED BY ONLY <2>1, <2>2, <2>3
<1>11. z \in AcceptConn
  BY <1>7, RespondedIs DEF SameClient
<1> DEFINE Is(pendWatch, watch, pendMulti, multi, pendSub, sub) ==
             /\ Apart(u, z) /\ z.block = u.block
             /\ HasCounters(z, pendWatch, watch, pendMulti, multi, pendSub, sub)
           Goal == /\ Apart(u, z) /\ z.block = u.block
                   /\ OneUse(z, c) /\ InSync(z, a[2], w1, m1, n1)
                   /\ cmd \notin Blocking /\ Holds(x) => Holds(z)
<1> SUFFICES Goal
  BY <1>8, <1>11 DEF Apart
<1>12. \A i, j \in Nat : Minus(i, j) = IF i > j THEN i - j ELSE 0
  BY DEF Minus
<1>13. z = u => Is(u.pendWatch, u.watch, u.pendMulti, u.multi, u.pendSub, u.sub)
  BY DEF Apart, HasCounters
<1>14. CASE cmd = "watch"
  <2>1. /\ u.pendSub = x.pendSub /\ u.sub = x.sub /\ x.pendSub = 0 /\ x.sub = 0
        /\ "subscribe" \notin Uses[c]
    BY <1>1, <1>4, <1>7, <1>9, <1>14 DEF OneUse, InSub
  <2>2. w1 + 1 <= w /\ m1 <= m /\ n1 <= n
    BY <1>14
  <2>3. CASE s.multi
    <3>1. a[2] = s /\ Res(a) = "err"
      BY <1>5, <1>14, <2>3 DEF Res
    <3>4. z = [u EXCEPT !.pendWatch = Minus(@, 1)]
      BY <1>10, <1>14, <3>1
    <3>2. Is(Minus(u.pendWatch, 1), u.watch, u.pendMulti, u.multi, u.pendSub, u.sub)
      BY <1>8, <3>4, ChangesAre
    <3>5. Minus(u.pendWatch, 1) = x.pendWatch - 1 /\ x.pendWatch >= x.watch + 1
      BY ONLY <1>1, <1>3, <1>9, <1>12, <1>20, <2>2
    <3>6. OneUse(z, c)
      BY ONLY <1>1, <1>9, <1>20, <2>1, <3>2 DEF OneUse, HasCounters
    <3>8. HasCounters(z, x.pendWatch - 1, x.watch, x.pendMulti, x.multi, x.pendSub, x.sub)
      <4>1. /\ z.pendWatch = x.pendWatch - 1 /\ z.watch = x.watch /\ z.pendMulti = x.pendMulti
            /\ z.multi = x.multi /\ z.pendSub = x.pendSub /\ z.sub = x.sub
        BY ONLY <1>9, <2>1, <3>2, <3>5 DEF HasCounters
      <4> QED BY ONLY <4>1 DEF HasCounters
    <3>7. InSync(z, s, w1, m1, n1)
      BY ONLY <1>1, <1>2, <1>3, <1>9, <1>20, <2>1, <2>2, <2>3, <3>5, <3>8 DEF InSync, HasCounters
    <3>3. OneUse(z, c) /\ InSync(z, s, w1, m1, n1) /\ Holds(z)
      BY ONLY <1>1, <1>3, <1>9, <1>20, <2>3, <3>2, <3>5, <3>6, <3>7
      DEF HasCounters, Holds, InTransaction
    <3> QED BY <3>1, <3>2, <3>3
  <2>4. CASE ~s.multi
    <3>1. /\ a[2].multi = s.multi /\ a[2].watch = TRUE /\ a[2].subs = s.subs
          /\ Res(a) = "ok"
      BY <1>5, <1>14, <2>4 DEF Res, Sessions
    <3>2. Is(u.pendWatch, u.watch + 1, u.pendMulti, u.multi, u.pendSub, u.sub)
      BY <1>8, <1>10, <1>14, <3>1, ChangesAre
    <3>4. OneUse(z, c)
      BY ONLY <1>1, <1>9, <1>20, <2>1, <3>2 DEF OneUse, HasCounters
    <3>5. InSync(z, a[2], w1, m1, n1)
      BY ONLY <1>1, <1>2, <1>3, <1>9, <1>20, <2>1, <2>2, <2>4, <3>1, <3>2 DEF InSync, HasCounters
    <3>3. OneUse(z, c) /\ InSync(z, a[2], w1, m1, n1) /\ Holds(z)
      BY ONLY <1>1, <1>3, <1>9, <1>20, <2>2, <3>2, <3>4, <3>5
      DEF HasCounters, Holds, InTransaction
    <3> QED BY <3>2, <3>3
  <2> QED BY <1>2, <2>3, <2>4
<1>15. CASE cmd = "multi"
  <2>1. /\ u.pendSub = x.pendSub /\ u.sub = x.sub /\ x.pendSub = 0 /\ x.sub = 0
        /\ "subscribe" \notin Uses[c]
    BY <1>1, <1>4, <1>7, <1>9, <1>15 DEF OneUse, InSub
  <2>2. w1 <= w /\ m1 + 1 <= m /\ n1 <= n
    BY <1>15
  <2>3. CASE s.multi
    <3>1. a[2] = s /\ Res(a) = "err"
      BY <1>5, <1>15, <2>3 DEF Res
    <3>4. z = [u EXCEPT !.pendMulti = Minus(@, 1)]
      BY <1>10, <1>15, <3>1
    <3>2. Is(u.pendWatch, u.watch, Minus(u.pendMulti, 1), u.multi, u.pendSub, u.sub)
      BY <1>8, <3>4, ChangesAre
    <3>5. Minus(u.pendMulti, 1) = x.pendMulti - 1 /\ x.pendMulti >= x.multi + 1
      BY ONLY <1>1, <1>3, <1>9, <1>12, <1>20, <2>2
    <3>6. OneUse(z, c)
      BY ONLY <1>1, <1>9, <1>20, <2>1, <3>2 DEF OneUse, HasCounters
    <3>8. HasCounters(z, x.pendWatch, x.watch, x.pendMulti - 1, x.multi, x.pendSub, x.sub)
      <4>1. /\ z.pendWatch = x.pendWatch /\ z.watch = x.watch /\ z.pendMulti = x.pendMulti - 1
            /\ z.multi = x.multi /\ z.pendSub = x.pendSub /\ z.sub = x.sub
        BY ONLY <1>9, <2>1, <3>2, <3>5 DEF HasCounters
      <4> QED BY ONLY <4>1 DEF HasCounters
    <3>7. InSync(z, s, w1, m1, n1)
      BY ONLY <1>1, <1>2, <1>3, <1>9, <1>20, <2>1, <2>2, <2>3, <3>5, <3>8 DEF InSync, HasCounters
    <3>3. OneUse(z, c) /\ InSync(z, s, w1, m1, n1) /\ Holds(z)
      BY ONLY <1>1, <1>3, <1>9, <1>20, <2>3, <3>2, <3>5, <3>6, <3>7
      DEF HasCounters, Holds, InTransaction
    <3> QED BY <3>1, <3>2, <3>3
  <2>4. CASE ~s.multi
    <3>1. /\ a[2].multi = TRUE /\ a[2].watch = s.watch /\ a[2].subs = s.subs
          /\ Res(a) = "ok"
      BY <1>5, <1>15, <2>4 DEF Res, Sessions
    <3>6. z = [u EXCEPT !.multi = @ + 1]
      BY <1>10, <1>15, <3>1
    <3>2. Is(u.pendWatch, u.watch, u.pendMulti, u.multi + 1, u.pendSub, u.sub)
      BY <1>8, <3>6, ChangesAre
    <3>4. OneUse(z, c)
      BY ONLY <1>1, <1>9, <1>20, <2>1, <3>2 DEF OneUse, HasCounters
    <3>5. InSync(z, a[2], w1, m1, n1)
      BY ONLY <1>1, <1>2, <1>3, <1>9, <1>20, <2>1, <2>2, <2>4, <3>1, <3>2 DEF InSync, HasCounters
    <3>3. OneUse(z, c) /\ InSync(z, a[2], w1, m1, n1) /\ Holds(z)
      BY ONLY <1>1, <1>3, <1>9, <1>20, <2>2, <3>2, <3>4, <3>5
      DEF HasCounters, Holds, InTransaction
    <3> QED BY <3>2, <3>3
  <2> QED BY <1>2, <2>3, <2>4
<1>16. CASE cmd = "subscribe"
  <2>1. /\ x.pendWatch = 0 /\ x.watch = 0 /\ x.pendMulti = 0 /\ x.multi = 0
        /\ Uses[c] \cap {"watch", "multi"} = {}
    BY <1>16 DEF OneUse
  <2>2. w1 <= w /\ m1 <= m /\ n1 + 1 <= n
    BY <1>16
  <2>3. /\ a[1] = "sub" /\ a[2].multi = s.multi /\ a[2].watch = s.watch
        /\ a[2].subs = s.subs + 1
    BY <1>5, <1>16 DEF Sessions
  <2>4. u.pendSub = Minus(x.pendSub, 1) /\ u.sub = s.subs + 1
    BY <1>4, <1>7, <1>9, <1>16, <2>3
  <2>5. Is(u.pendWatch, u.watch, u.pendMulti, u.multi, u.pendSub, u.sub)
    BY <1>10, <1>13, <1>16
  <2>6. OneUse(z, c) /\ InSync(z, a[2], w1, m1, n1) /\ Holds(z)
    BY ONLY <1>1, <1>2, <1>3, <1>9, <1>20, <1>12, <2>1, <2>2, <2>3, <2>4, <2>5
    DEF OneUse, InSync, HasCounters, Holds, InSub
  <2> QED BY <2>5, <2>6
<1>17. CASE cmd = "unwatch"
  <2>1. /\ w1 <= w /\ m1 <= m /\ n1 <= n /\ cmd \in Blocking
        /\ u.pendSub = x.pendSub /\ u.sub = x.sub
    BY <1>5, <1>7, <1>9, <1>17 DEF Blocking
  <2>2. CASE Res(a) = "ok"
    <3>1. a[2].multi = s.multi /\ a[2].watch = FALSE /\ a[2].subs = s.subs
      BY <1>5, <1>17, <2>2 DEF Res, Sessions
    <3>2. Is(Minus(u.pendWatch, u.watch), 0, u.pendMulti, u.multi, u.pendSub, u.sub)
      BY <1>8, <1>10, <1>17, <2>2, ChangesAre
    <3>4. Minus(u.pendWatch, u.watch) = x.pendWatch - x.watch
      BY ONLY <1>1, <1>3, <1>9, <1>12, <1>20
    <3>5. HasCounters(z, x.pendWatch - x.watch, 0, x.pendMulti, x.multi, x.pendSub, x.sub)
      BY ONLY <1>9, <2>1, <3>2, <3>4 DEF HasCounters
    <3>6. OneUse(z, c)
      BY ONLY <1>1, <1>20, <3>5 DEF OneUse, HasCounters
    <3>7. InSync(z, a[2], w1, m1, n1)
      BY ONLY <1>1, <1>2, <1>3, <1>20, <2>1, <3>1, <3>5 DEF InSync, HasCounters
    <3>3. OneUse(z, c) /\ InSync(z, a[2], w1, m1, n1)
      BY <3>6, <3>7
    <3> QED BY <2>1, <3>2, <3>3
  <2>3. CASE Res(a) # "ok"
    <3>1. a[2] = s
      BY <1>5, <1>17, <2>3 DEF Res
    <3>2. Is(u.pendWatch, u.watch, u.pendMulti, u.multi, u.pendSub, u.sub)
      BY <1>10, <1>13, <1>17, <2>3
    <3>3. OneUse(z, c) /\ InSync(z, a[2], w1, m1, n1)
      BY ONLY <1>1, <1>2, <1>3, <1>9, <1>20, <2>1, <3>1, <3>2 DEF OneUse, InSync, HasCounters
    <3> QED BY <2>1, <3>2, <3>3
  <2> QED BY <2>2, <2>3
<1>18. CASE cmd \in {"exec", "discard"}
  <2>1. /\ w1 <= w /\ m1 <= m /\ n1 <= n /\ cmd \in Blocking
        /\ u.pendSub = x.pendSub /\ u.sub = x.sub
    BY <1>5, <1>7, <1>9, <1>18 DEF Blocking
  <2>2. CASE s.multi
    <3>1. a[2].multi = FALSE /\ a[2].watch = FALSE /\ a[2].subs = 0 /\ u.multi > 0
      BY <1>3, <1>5, <1>9, <1>18, <2>2 DEF Clean
    <3> DEFINE v == Unwatch(u)
    <3>2. z = DecrMulti(v)
      BY <1>10, <1>18, <3>1
    <3>3. /\ v \in AcceptConn /\ Apart(u, v) /\ v.block = u.block
          /\ HasCounters(v, Minus(u.pendWatch, u.watch), 0, u.pendMulti, u.multi, u.pendSub, u.sub)
      BY <1>8, ChangesAre, CountersChange DEF Recounted, SameClient
    <3> HIDE DEF v
    <3>4. /\ Apart(v, z) /\ z.block = v.block
          /\ HasCounters(z, v.pendWatch, v.watch, Minus(v.pendMulti, 1), Minus(v.multi, 1),
                         v.pendSub, v.sub)
      BY <3>2, <3>3, ChangesAre
    <3>5. Is(Minus(u.pendWatch, u.watch), 0, Minus(u.pendMulti, 1), Minus(u.multi, 1),
             u.pendSub, u.sub)
      BY <3>3, <3>4 DEF Apart, HasCounters
    <3>7. /\ Minus(u.pendWatch, u.watch) = x.pendWatch - x.watch
          /\ Minus(u.pendMulti, 1) = x.pendMulti - 1 /\ Minus(u.multi, 1) = 0
          /\ x.multi = 1
      <4>1. x.multi = 1
        BY ONLY <1>1, <1>2, <1>3, <2>2
      <4>2. x.pendMulti >= 1 /\ x.pendWatch >= x.watch
        BY ONLY <1>1, <1>3, <1>20, <4>1
      <4>3. u.multi = 1 /\ u.pendMulti = x.pendMulti /\ u.pendWatch = x.pendWatch /\ u.watch = x.watch
        BY ONLY <1>9, <4>1
      <4>4. Minus(1, 1) = 0 /\ Minus(x.pendMulti, 1) = x.pendMulti - 1
        BY ONLY <1>1, <1>12, <4>2
      <4>5. Minus(x.pendWatch, x.watch) = x.pendWatch - x.watch
        <5>1. Minus(x.pendWatch, x.watch) = IF x.pendWatch > x.watch THEN x.pendWatch - x.watch
                                            ELSE 0
          BY DEF Minus
        <5> QED BY ONLY <1>1, <4>2, <5>1
      <4> QED BY ONLY <4>1, <4>3, <4>4, <4>5
    <3>8. HasCounters(z, x.pendWatch - x.watch, 0, x.pendMulti - 1, 0, x.pendSub, x.sub)
      BY ONLY <1>9, <2>1, <3>5, <3>7 DEF HasCounters
    <3>9. OneUse(z, c)
      BY ONLY <1>1, <1>20, <3>7, <3>8 DEF OneUse, HasCounters
    <3>10. InSync(z, a[2], w1, m1, n1)
      BY ONLY <1>1, <1>3, <1>4, <1>20, <2>1, <2>2, <3>1, <3>7, <3>8 DEF InSync, HasCounters
    <3>6. OneUse(z, c) /\ InSync(z, a[2], w1, m1, n1)
      BY <3>9, <3>10
    <3> QED BY <2>1, <3>5, <3>6
  <2>3. CASE ~s.multi
    <3>1. a[2] = s /\ ~(u.multi > 0)
      BY <1>3, <1>5, <1>9, <1>18, <2>3
    <3>2. Is(u.pendWatch, u.watch, u.pendMulti, u.multi, u.pendSub, u.sub)
      BY <1>10, <1>13, <1>18, <3>1
    <3>4. OneUse(z, c)
      BY ONLY <1>1, <1>9, <1>20, <2>1, <3>2 DEF OneUse, HasCounters
    <3>5. InSync(z, a[2], w1, m1, n1)
      BY ONLY <1>1, <1>2, <1>3, <1>9, <1>20, <2>1, <3>1, <3>2 DEF InSync, HasCounters
    <3>3. OneUse(z, c) /\ InSync(z, a[2], w1, m1, n1)
      BY <3>4, <3>5
    <3> QED BY <2>1, <3>2, <3>3
  <2> QED BY <2>2, <2>3
<1>19. CASE cmd \notin {"watch", "multi", "subscribe", "unwatch", "exec", "discard"}
  <2>1. w1 <= w /\ m1 <= m /\ n1 <= n
    BY <1>19
  <2>2. Is(u.pendWatch, u.watch, u.pendMulti, u.multi, u.pendSub, u.sub)
    BY <1>10, <1>13, <1>19
  <2>3. CASE a[1] = "unsub"
    <3>1. /\ cmd = "unsubscribe" /\ a[2].multi = s.multi /\ a[2].watch = s.watch
          /\ a[2].subs = Minus(s.subs, 1)
      BY <1>5, <1>19, <2>3 DEF Sessions
    <3>2. u.pendSub = x.pendSub /\ u.sub = Minus(s.subs, 1)
      <4>1. CASE InSub(x)
        BY <1>7, <1>9, <2>3, <3>1, <4>1
      <4>2. CASE ~InSub(x)
        BY <1>1, <1>2, <1>3, <1>7, <1>9, <1>12, <4>2 DEF InSub
      <4> QED BY <4>1, <4>2
    <3>3. OneUse(z, c)
      BY ONLY <1>1, <1>2, <1>3, <1>9, <1>20, <1>12, <2>2, <3>2 DEF OneUse, HasCounters
    <3>4. InSync(z, a[2], w1, m1, n1)
      BY ONLY <1>1, <1>2, <1>3, <1>9, <1>20, <2>1, <2>2, <3>1, <3>2 DEF InSync, HasCounters
    <3> QED BY <2>2, <3>1, <3>3, <3>4 DEF Blocking
  <2>4. CASE a[1] # "unsub"
    <3>1. a[2] = s /\ a[1] # "sub" /\ y = x
      BY <1>5, <1>7, <1>19, <2>4
    <3>2. OneUse(z, c) /\ InSync(z, a[2], w1, m1, n1)
      BY ONLY <1>1, <1>2, <1>3, <1>9, <1>20, <2>1, <2>2, <3>1 DEF OneUse, InSync, HasCounters
    <3>3. Holds(x) => Holds(z)
      BY <1>9, <2>2, <3>1 DEF Holds, InTransaction, InSub, HasCounters
    <3> QED BY <2>2, <3>2, <3>3
  <2> QED BY <2>3, <2>4
<1> QED BY <1>14, <1>15, <1>16, <1>17, <1>18, <1>19

-----------------------------------------------------------------------------
(* What is queued on a connection.                                         *)

\* The number of the requests cmd is a natural number, and it is zero where there is
\* none of them.
LEMMA CountIs ==
    ASSUME NEW h, NEW q, NEW k, NEW cmd
    PROVE  IsFiniteSet(Queued(h, q, k, cmd)) /\ Count(h, q, k, cmd) \in Nat
<1>1. Queued(h, q, k, cmd) \subseteq Req
  BY DEF Queued
<1>2. IsFiniteSet(Queued(h, q, k, cmd))
  BY <1>1, Constants, FS_Subset
<1> QED BY <1>2, FS_CardinalityType DEF Count

\* The same requests count the same ...
LEMMA CountSame ==
    ASSUME NEW h, NEW g, NEW q, NEW p, NEW k, NEW cmd,
           \A t \in Req : On(p, k, t) <=> On(q, k, t),
           \A t \in Req : On(q, k, t) => g.req[t].cmd = h.req[t].cmd
    PROVE  Count(g, p, k, cmd) = Count(h, q, k, cmd)
<1>1. Queued(g, p, k, cmd) = Queued(h, q, k, cmd)
  BY DEF Queued
<1> QED BY <1>1 DEF Count

\* ... without one there is one less ...
LEMMA CountLess ==
    ASSUME NEW h, NEW g, NEW q, NEW p, NEW k, NEW cmd, NEW r \in Req, On(q, k, r),
           \A t \in Req : On(p, k, t) <=> On(q, k, t) /\ t # r,
           \A t \in Req : g.req[t].cmd = h.req[t].cmd
    PROVE  Count(g, p, k, cmd) + (IF h.req[r].cmd = cmd THEN 1 ELSE 0) <= Count(h, q, k, cmd)
<1> DEFINE Q == Queued(h, q, k, cmd)
           P == Queued(g, p, k, cmd)
<1>1. P = Q \ {r}
  BY DEF Queued
<1>2. r \in Q <=> h.req[r].cmd = cmd
  BY DEF Queued
<1>3. IsFiniteSet(Q) /\ Cardinality(Q) \in Nat
  BY CountIs DEF Count
<1> HIDE DEF P, Q
<1>4. CASE h.req[r].cmd = cmd
  <2>1. Cardinality(P) = Cardinality(Q) - 1
    BY <1>1, <1>2, <1>3, <1>4, FS_RemoveElement
  <2> QED BY <1>3, <1>4, <2>1 DEF Count, P, Q
<1>5. CASE h.req[r].cmd # cmd
  <2>1. P = Q
    BY <1>1, <1>2, <1>5
  <2> QED BY <1>3, <1>5, <2>1 DEF Count, P, Q
<1> QED BY <1>4, <1>5

\* ... and with one more there is one more.
LEMMA CountMore ==
    ASSUME NEW h, NEW g, NEW q, NEW p, NEW k, NEW cmd, NEW r \in Req, ~On(q, k, r),
           \A t \in Req : On(p, k, t) <=> On(q, k, t) \/ t = r,
           \A t \in Req : g.req[t].cmd = h.req[t].cmd
    PROVE  Count(g, p, k, cmd) = Count(h, q, k, cmd) + (IF h.req[r].cmd = cmd THEN 1 ELSE 0)
<1> DEFINE Q == Queued(h, q, k, cmd)
           P == Queued(g, p, k, cmd)
<1>1. h.req[r].cmd = cmd => P = Q \cup {r}
  BY DEF Queued
<1>2. h.req[r].cmd # cmd => P = Q
  BY DEF Queued
<1>3. r \notin Q
  BY DEF Queued
<1>4. IsFiniteSet(Q) /\ Cardinality(Q) \in Nat
  BY CountIs DEF Count
<1> HIDE DEF P, Q
<1>5. CASE h.req[r].cmd = cmd
  <2>1. Cardinality(P) = Cardinality(Q) + 1
    BY <1>1, <1>3, <1>4, <1>5, FS_AddElement
  <2> QED BY <1>4, <1>5, <2>1 DEF Count, P, Q
<1>6. CASE h.req[r].cmd # cmd
  BY <1>2, <1>4, <1>6 DEF Count, P, Q
<1> QED BY <1>5, <1>6

\* On a connection that has nothing nothing counts.
LEMMA CountNone ==
    ASSUME NEW h, NEW q, NEW k, NEW cmd, \A t \in Req : ~On(q, k, t)
    PROVE  Count(h, q, k, cmd) = 0
<1>1. Queued(h, q, k, cmd) = {}
  BY DEF Queued
<1> QED BY <1>1, FS_EmptySet DEF Count

-----------------------------------------------------------------------------
(* Clients and connections.                                                *)

\* What Core says of h it says of g: nobody's counters have changed, nor what is
\* waited for on a connection.
Like(h, g, q) ==
    /\ State(g)
    /\ \A c \in Client :
         /\ g.cc[c].open = h.cc[c].open /\ g.cc[c].conn = h.cc[c].conn
         /\ ReadOf(h.cc[c]) \subseteq ReadOf(g.cc[c])
         /\ ~h.cc[c].open => g.cc[c].requests = h.cc[c].requests
         /\ Alive(g, c) => /\ Alive(h, c) /\ g.cc[c].block = h.cc[c].block
                           /\ SameCounters(h.cc[c], g.cc[c])
    /\ \A k \in Conn : /\ g.sc[k].link = h.sc[k].link /\ g.sc[k].good = h.sc[k].good
                       /\ g.sc[k].acc = h.sc[k].acc
    /\ \A k \in Conn, r \in Req : On(q, k, r) =>
         /\ g.req[r].cmd = h.req[r].cmd
         /\ /\ h.req[r].cmd \notin Empty /\ Alive(g, r[1])
            /\ Contains(h.cc[r[1]].requests, r) /\ h.req[r].res = "none"
            => Contains(g.cc[r[1]].requests, r) /\ g.req[r].res = "none"
    /\ Known(g)

\* Counters say the same of a client if they are the same.
LEMMA SameSync ==
    ASSUME NEW x, NEW y, SameCounters(x, y)
    PROVE  /\ Nothing(x) => Nothing(y)
           /\ \A s, w, m, n : InSync(x, s, w, m, n) => InSync(y, s, w, m, n)
           /\ \A c : OneUse(x, c) => OneUse(y, c)
<1>1. Nothing(x) => Nothing(y)
  BY DEF SameCounters, HasCounters, Nothing
<1>2. ASSUME NEW s, NEW w, NEW m, NEW n, InSync(x, s, w, m, n) PROVE InSync(y, s, w, m, n)
  BY <1>2 DEF SameCounters, HasCounters, InSync
<1>3. ASSUME NEW c, OneUse(x, c) PROVE OneUse(y, c)
  BY <1>3 DEF SameCounters, HasCounters, OneUse
<1> QED BY <1>1, <1>2, <1>3

\* The invariant is kept by a change that Like describes.
LEMMA LikeKeeps ==
    ASSUME NEW h, NEW g, NEW s, NEW q, Core(h, s, q), Like(h, g, q)
    PROVE  /\ Core(g, s, q)
           /\ \A c \in Client : Attending(h, q, c) => Attending(g, q, c)
<1>1. Pending(g, q)
  <2> SUFFICES ASSUME NEW k \in Conn, NEW r \in Req, On(q, k, r)
               PROVE  /\ \A j \in Conn : On(q, j, r) => j = k
                      /\ r[2] \in ReadOf(g.cc[r[1]])
                      /\ Alive(g, r[1]) /\ g.req[r].cmd \notin Empty =>
                           Contains(g.cc[r[1]].requests, r) /\ g.req[r].res = "none"
                      /\ k \in Private => IF g.sc[k].good THEN g.sc[k].acc = r[1]
                                          ELSE ~g.cc[r[1]].open
                      /\ k = Shared => g.req[r].cmd \notin RequirePrivate
    BY DEF Pending
  <2> DEFINE c == r[1]
  <2>1. c \in Client
    BY Constants
  <2>2. /\ \A j \in Conn : On(q, j, r) => j = k
        /\ r[2] \in ReadOf(h.cc[c])
        /\ Alive(h, c) /\ h.req[r].cmd \notin Empty =>
             Contains(h.cc[c].requests, r) /\ h.req[r].res = "none"
        /\ k \in Private => IF h.sc[k].good THEN h.sc[k].acc = c ELSE ~h.cc[c].open
        /\ k = Shared => h.req[r].cmd \notin RequirePrivate
    BY DEF Core, Pending
  <2>3. /\ ReadOf(h.cc[c]) \subseteq ReadOf(g.cc[c]) /\ g.cc[c].open = h.cc[c].open
        /\ Alive(g, c) => Alive(h, c)
        /\ g.sc[k].good = h.sc[k].good /\ g.sc[k].acc = h.sc[k].acc
        /\ g.req[r].cmd = h.req[r].cmd
        /\ /\ h.req[r].cmd \notin Empty /\ Alive(g, c)
           /\ Contains(h.cc[c].requests, r) /\ h.req[r].res = "none"
           => Contains(g.cc[c].requests, r) /\ g.req[r].res = "none"
    BY <2>1 DEF Like
  <2> QED BY <2>2, <2>3
<1>2. Blocked(g, q)
  BY Constants DEF Core, Blocked, Like
<1>3. Attached(g)
  BY DEF Core, Attached, Like
<1>4. ASSUME NEW c \in Client, Alive(g, c)
      PROVE  LET x == g.cc[c] IN
               /\ OneUse(x, c)
               /\ IF x.conn = None THEN Nothing(x)
                  ELSE InSync(x, s[x.conn], Count(g, q, x.conn, "watch"),
                              Count(g, q, x.conn, "multi"), Count(g, q, x.conn, "subscribe"))
  <2> DEFINE x == h.cc[c]
             y == g.cc[c]
  <2>1. Alive(h, c) /\ y.conn = x.conn /\ SameCounters(x, y)
    BY <1>4 DEF Like
  <2>2. /\ OneUse(x, c)
        /\ IF x.conn = None THEN Nothing(x)
           ELSE InSync(x, s[x.conn], Count(h, q, x.conn, "watch"),
                       Count(h, q, x.conn, "multi"), Count(h, q, x.conn, "subscribe"))
    BY <2>1 DEF Core, Counts
  <2>3. x.conn # None => x.conn \in Conn
    BY DEF Core, State, AcceptConn
  <2>4. x.conn # None => \A cmd : Count(g, q, x.conn, cmd) = Count(h, q, x.conn, cmd)
    <3> SUFFICES ASSUME x.conn \in Conn, NEW cmd
                 PROVE  Count(g, q, x.conn, cmd) = Count(h, q, x.conn, cmd)
      BY <2>3
    <3>1. \A t \in Req : On(q, x.conn, t) => g.req[t].cmd = h.req[t].cmd
      BY DEF Like
    <3> QED BY <3>1, CountSame
  <2> HIDE DEF x, y
  <2>5. OneUse(y, c) /\ (IF y.conn = None THEN Nothing(y)
           ELSE InSync(y, s[y.conn], Count(g, q, y.conn, "watch"),
                       Count(g, q, y.conn, "multi"), Count(g, q, y.conn, "subscribe")))
    BY <2>1, <2>2, <2>4, SameSync
  <2> QED BY <2>5 DEF y
<1>5. Counts(g, s, q)
  BY <1>4 DEF Counts
<1>6. Cleared(g, s)
  BY DEF Core, Cleared, Like, Open
<1>7. ASSUME NEW c \in Client, Attending(h, q, c) PROVE Attending(g, q, c)
  <2> SUFFICES ASSUME Alive(g, c), g.cc[c].conn # None, ~Holds(g.cc[c])
               PROVE  /\ g.cc[c].block
                      /\ \A r \in Req : On(q, g.cc[c].conn, r) => g.req[r].cmd \in Blocking
    BY DEF Attending
  <2>1. /\ Alive(h, c) /\ g.cc[c].conn = h.cc[c].conn /\ SameCounters(h.cc[c], g.cc[c])
        /\ g.cc[c].block = h.cc[c].block
    BY DEF Like
  <2>2. ~Holds(h.cc[c])
    BY <2>1, SameHolds
  <2>3. h.cc[c].block /\ \A r \in Req : On(q, h.cc[c].conn, r) => h.req[r].cmd \in Blocking
    BY <1>7, <2>1, <2>2 DEF Attending
  <2>4. h.cc[c].conn \in Conn
    BY <2>1 DEF Core, State, AcceptConn
  <2> QED BY <2>1, <2>3, <2>4 DEF Like
<1> QED BY <1>1, <1>2, <1>3, <1>5, <1>6, <1>7 DEF Core, Like

-----------------------------------------------------------------------------
(* A request leaves a connection.                                          *)

\* Request r is taken from connection k.  Its client may be answered, and if it
\* is attached to k the session may change.
Leaves(h, g, s, u, q, p, k, r) ==
    /\ On(q, k, r) /\ p \in Queues /\ Less(q[k], p[k], r)
    /\ \A j \in Conn : j # k => p[j] = q[j] /\ u[j] = s[j]
    /\ u \in [Conn -> Sessions] /\ (h.sc[k].acc = None => u[k] = s[k])
    /\ State(g)
    /\ \A j \in Conn : /\ g.sc[j].link = h.sc[j].link /\ g.sc[j].good = h.sc[j].good
                       /\ g.sc[j].acc = h.sc[j].acc
    /\ \A d \in Client : /\ Apart(h.cc[d], g.cc[d])
                         /\ d # r[1] => SameAs(h.cc[d], g.cc[d])
    /\ h.req[r].cmd \notin Blocking /\ Alive(h, r[1]) => g.cc[r[1]].block = h.cc[r[1]].block
    /\ \A t \in Req : /\ g.req[t].cmd = h.req[t].cmd
                      /\ t # r => g.req[t] = h.req[t]
    /\ Known(g)
    /\ Alive(h, r[1]) =>
         /\ OneUse(g.cc[r[1]], r[1])
         /\ IF h.cc[r[1]].conn = k
            THEN InSync(g.cc[r[1]], u[k], Count(g, p, k, "watch"),
                        Count(g, p, k, "multi"), Count(g, p, k, "subscribe"))
            ELSE SameCounters(h.cc[r[1]], g.cc[r[1]])

\* The invariant is kept when a request leaves its connection and its client is
\* brought up to date.
LEMMA LeavesKeeps ==
    ASSUME NEW h, NEW g, NEW s, NEW u, NEW q, NEW p, Core(h, s, q),
           NEW k \in Conn, NEW r \in Req, Leaves(h, g, s, u, q, p, k, r)
    PROVE  /\ Core(g, u, p)
           /\ \A d \in Client : SameAs(h.cc[d], g.cc[d]) /\ Attending(h, q, d)
                                => Attending(g, p, d)
<1>1. \A j \in Conn, t \in Req : On(p, j, t) <=> On(q, j, t) /\ t # r
  <2> TAKE j \in Conn, t \in Req
  <2>1. CASE j = k
    BY <2>1 DEF Leaves, Less, On
  <2>2. CASE j # k
    <3>1. p[j] = q[j]
      BY <2>2 DEF Leaves
    <3>2. ~On(q, j, r)
      BY <2>2 DEF Leaves, Core, Pending
    <3> QED BY <3>1, <3>2 DEF On
  <2> QED BY <2>1, <2>2
<1>2. /\ \A d \in Client : Apart(h.cc[d], g.cc[d]) /\ (Alive(g, d) <=> Alive(h, d))
      /\ \A j \in Conn : g.sc[j].good = h.sc[j].good /\ g.sc[j].acc = h.sc[j].acc
      /\ \A t \in Req : t[1] \in Client /\ g.req[t].cmd = h.req[t].cmd
      /\ \A t \in Req : t # r => g.req[t] = h.req[t]
  BY Constants DEF Leaves, Apart, Alive
<1>3. Once(p)
  BY DEF Core, Once, Leaves, Less
<1>4. Pending(g, p)
  <2> SUFFICES ASSUME NEW j \in Conn, NEW t \in Req, On(q, j, t), t # r
               PROVE  /\ \A i \in Conn : On(p, i, t) => i = j
                      /\ t[2] \in ReadOf(g.cc[t[1]])
                      /\ Alive(g, t[1]) /\ g.req[t].cmd \notin Empty =>
                           Contains(g.cc[t[1]].requests, t) /\ g.req[t].res = "none"
                      /\ j \in Private => IF g.sc[j].good THEN g.sc[j].acc = t[1]
                                          ELSE ~g.cc[t[1]].open
                      /\ j = Shared => g.req[t].cmd \notin RequirePrivate
    BY <1>1 DEF Pending
  <2>1. /\ \A i \in Conn : On(q, i, t) => i = j
        /\ t[2] \in ReadOf(h.cc[t[1]])
        /\ Alive(h, t[1]) /\ h.req[t].cmd \notin Empty =>
             Contains(h.cc[t[1]].requests, t) /\ h.req[t].res = "none"
        /\ j \in Private => IF h.sc[j].good THEN h.sc[j].acc = t[1] ELSE ~h.cc[t[1]].open
        /\ j = Shared => h.req[t].cmd \notin RequirePrivate
    BY DEF Core, Pending
  <2>2. /\ ReadOf(g.cc[t[1]]) = ReadOf(h.cc[t[1]]) /\ g.cc[t[1]].open = h.cc[t[1]].open
        /\ g.cc[t[1]].requests = h.cc[t[1]].requests
    BY <1>2 DEF Apart, ReadOf
  <2> QED BY <1>1, <1>2, <2>1, <2>2
<1>5. Blocked(g, p)
  <2> SUFFICES ASSUME NEW j \in Conn, NEW t \in Req, On(q, j, t), t # r,
                      Alive(g, t[1]), g.req[t].cmd \in Blocking
               PROVE  /\ g.cc[t[1]].block
                      /\ \A i \in Conn, v \in Req :
                            On(p, i, v) /\ v[1] = t[1] /\ g.req[v].cmd \in Blocking => v = t
                      /\ j \in Private => p[j][Len(p[j])] = t
                      /\ j = Shared => g.cc[t[1]].conn = None
    BY <1>1 DEF Blocked
  <2>1. /\ h.cc[t[1]].block
        /\ \A i \in Conn, v \in Req :
              On(q, i, v) /\ v[1] = t[1] /\ h.req[v].cmd \in Blocking => v = t
        /\ j \in Private => q[j][Len(q[j])] = t
        /\ j = Shared => h.cc[t[1]].conn = None
    BY <1>2 DEF Core, Blocked
  <2>2. g.cc[t[1]].block = h.cc[t[1]].block
    <3>1. CASE t[1] # r[1]
      BY <1>2, <3>1 DEF Leaves, SameAs
    <3>2. CASE t[1] = r[1]
      <4>1. h.req[r].cmd \notin Blocking
        BY <2>1, <3>2 DEF Leaves
      <4> QED BY <1>2, <3>2, <4>1 DEF Leaves
    <3> QED BY <3>1, <3>2
  <2>3. j \in Private => p[j][Len(p[j])] = t
    <3>1. CASE j = k
      BY <2>1, <3>1 DEF Leaves, Less, On
    <3>2. CASE j # k
      BY <2>1, <3>2 DEF Leaves
    <3> QED BY <3>1, <3>2
  <2>4. j = Shared => g.cc[t[1]].conn = None
    BY <1>2, <2>1 DEF Apart
  <2> QED BY <1>1, <1>2, <2>1, <2>2, <2>3, <2>4
<1>6. Attached(g)
  <2>1. \A d \in Client : g.cc[d].conn = h.cc[d].conn /\ g.cc[d].open = h.cc[d].open
                          /\ g.cc[d].requests = h.cc[d].requests
    BY <1>2 DEF Apart
  <2> QED BY <1>2, <2>1 DEF Core, Attached
<1>7. ASSUME NEW d \in Client, Alive(g, d)
      PROVE  LET x == g.cc[d] IN
               /\ OneUse(x, d)
               /\ IF x.conn = None THEN Nothing(x)
                  ELSE InSync(x, u[x.conn], Count(g, p, x.conn, "watch"),
                              Count(g, p, x.conn, "multi"), Count(g, p, x.conn, "subscribe"))
  <2> DEFINE x == h.cc[d]
             y == g.cc[d]
  <2>1. Alive(h, d) /\ y.conn = x.conn
    BY <1>2, <1>7 DEF Apart
  <2>2. /\ OneUse(x, d)
        /\ IF x.conn = None THEN Nothing(x)
           ELSE InSync(x, s[x.conn], Count(h, q, x.conn, "watch"),
                       Count(h, q, x.conn, "multi"), Count(h, q, x.conn, "subscribe"))
    BY <2>1 DEF Core, Counts
  <2>3. CASE d = r[1] /\ x.conn = k
    <3>1. k # None
      BY Constants
    <3> QED BY <2>1, <2>3, <3>1 DEF Leaves
  <2>4. CASE ~(d = r[1] /\ x.conn = k)
    <3>1. SameCounters(x, y)
      BY <2>1, <2>4 DEF Leaves, SameAs
    <3>2. x.conn # k
      <4> SUFFICES ASSUME x.conn = k PROVE FALSE
        OBVIOUS
      <4>1. h.sc[k].acc = d /\ d # None
        BY Constants DEF Core, Attached
      <4>2. k \in Private /\ h.sc[k].good
        BY <4>1 DEF Core, Attached
      <4>3. h.sc[k].acc = r[1]
        BY <4>2 DEF Core, Pending, Leaves
      <4> QED BY <2>4, <4>1, <4>3
    <3>3. x.conn # None => x.conn \in Conn
      BY DEF Core, State, AcceptConn
    <3>4. x.conn # None => u[x.conn] = s[x.conn] /\ p[x.conn] = q[x.conn]
      BY <3>2, <3>3 DEF Leaves
    <3>5. x.conn # None => \A cmd : Count(g, p, x.conn, cmd) = Count(h, q, x.conn, cmd)
      <4> SUFFICES ASSUME x.conn # None, NEW cmd
                   PROVE  Count(g, p, x.conn, cmd) = Count(h, q, x.conn, cmd)
        OBVIOUS
      <4>1. \A t \in Req : On(p, x.conn, t) <=> On(q, x.conn, t)
        BY <3>4 DEF On
      <4> QED BY <1>2, <4>1, CountSame
    <3> HIDE DEF x, y
    <3>6. OneUse(y, d) /\ (IF y.conn = None THEN Nothing(y)
           ELSE InSync(y, u[y.conn], Count(g, p, y.conn, "watch"),
                       Count(g, p, y.conn, "multi"), Count(g, p, y.conn, "subscribe")))
      BY <2>1, <2>2, <3>1, <3>4, <3>5, SameSync
    <3> QED BY <3>6 DEF y
  <2> QED BY <2>3, <2>4
<1>8. Counts(g, u, p)
  BY <1>7 DEF Counts
<1>9. Cleared(g, u)
  <2> SUFFICES ASSUME NEW j \in Conn, g.sc[j].acc = None, Open(g.sc[j]) => g.sc[j].good
               PROVE  u[j] = Clean
    BY DEF Cleared
  <2>1. h.sc[j].acc = None /\ (Open(h.sc[j]) => h.sc[j].good)
    BY DEF Leaves, Open
  <2>2. s[j] = Clean /\ u[j] = s[j]
    BY <2>1 DEF Core, Cleared, Leaves
  <2> QED BY <2>2
<1>10. Core(g, u, p)
  BY <1>3, <1>4, <1>5, <1>6, <1>8, <1>9 DEF Core, Leaves
<1>11. ASSUME NEW d \in Client, SameAs(h.cc[d], g.cc[d]), Attending(h, q, d)
       PROVE  Attending(g, p, d)
  <2>1. /\ g.cc[d].conn = h.cc[d].conn /\ g.cc[d].block = h.cc[d].block
        /\ Holds(g.cc[d]) <=> Holds(h.cc[d])
        /\ Alive(g, d) <=> Alive(h, d)
    BY <1>2, <1>11, SameHolds DEF SameAs, Apart
  <2>2. h.cc[d].conn # None => h.cc[d].conn \in Conn
    BY DEF Core, State, AcceptConn
  <2> QED BY <1>1, <1>2, <1>11, <2>1, <2>2 DEF Attending
<1> QED BY <1>10, <1>11

-----------------------------------------------------------------------------
(* Connections are opened, put back and closed.                            *)

\* Client c and connection k part, and nothing else changes.
LEMMA DetachIs ==
    ASSUME NEW h, State(h), NEW c \in Client, NEW k \in Conn, NEW g, g = Detach(h, c, k)
    PROVE  /\ State(g) /\ g.req = h.req /\ g.idle = h.idle /\ g.postS = h.postS
           /\ \A d \in Client : d # c => g.cc[d] = h.cc[d]
           /\ \A j \in Conn : j # k => g.sc[j] = h.sc[j]
           /\ g.cc[c].conn = None /\ g.cc[c].block = h.cc[c].block
           /\ SameClient(h.cc[c], g.cc[c]) /\ SameCounters(h.cc[c], g.cc[c])
           /\ g.sc[k].acc = None /\ SameConn(h.sc[k], g.sc[k])
           /\ g.sc[k].post = h.sc[k].post /\ g.sc[k].next = h.sc[k].next
<1> DEFINE x == [h.cc[c] EXCEPT !.conn = None]
           y == [h.sc[k] EXCEPT !.acc = None]
<1>1. /\ g.req = h.req /\ g.idle = h.idle /\ g.postS = h.postS
      /\ g.cc = [h.cc EXCEPT ![c] = x] /\ g.sc = [h.sc EXCEPT ![k] = y]
  BY DEF Detach, State, Parts
<1>2. State(g)
  BY DetachFrame DEF Frame
<1>3. h.cc[c] \in AcceptConn /\ h.sc[k] \in ConnectConn
  BY DEF State
<1>4. /\ x.conn = None /\ x.block = h.cc[c].block
      /\ SameClient(h.cc[c], x) /\ SameCounters(h.cc[c], x)
  BY <1>3 DEF AcceptConn, SameClient, SameCounters, HasCounters
<1>5. /\ y.acc = None /\ SameConn(h.sc[k], y)
      /\ y.post = h.sc[k].post /\ y.next = h.sc[k].next
  BY <1>3 DEF ConnectConn, SameConn
<1> HIDE DEF x, y
<1>6. g.cc[c] = x /\ g.sc[k] = y
  BY <1>1 DEF State
<1>7. /\ \A d \in Client : d # c => g.cc[d] = h.cc[d]
      /\ \A j \in Conn : j # k => g.sc[j] = h.sc[j]
  BY <1>1 DEF State
<1> QED BY <1>1, <1>2, <1>4, <1>5, <1>6, <1>7

\* A client with nothing open leaves a connection with nothing on it.
LEMMA DetachKeeps ==
    ASSUME NEW h, NEW s, NEW q, Core(h, s, q), NEW c \in Client, NEW k \in Conn,
           h.cc[c].conn = k, Nothing(h.cc[c]), s[k] = Clean, \A t \in Req : ~On(q, k, t),
           NEW g, g = Detach(h, c, k)
    PROVE  /\ Core(g, s, q) /\ Attending(g, q, c)
           /\ \A d \in Client : d # c /\ Attending(h, q, d) => Attending(g, q, d)
<1>1. /\ State(g) /\ g.req = h.req
      /\ \A d \in Client : d # c => g.cc[d] = h.cc[d]
      /\ \A j \in Conn : j # k => g.sc[j] = h.sc[j]
      /\ g.cc[c].conn = None /\ g.cc[c].block = h.cc[c].block
      /\ SameClient(h.cc[c], g.cc[c]) /\ SameCounters(h.cc[c], g.cc[c])
      /\ g.sc[k].acc = None /\ SameConn(h.sc[k], g.sc[k])
  <2>1. State(h)
    BY DEF Core
  <2> QED BY ONLY <2>1, c \in Client, k \in Conn, g = Detach(h, c, k), DetachIs
<1>2. \A d \in Client : /\ g.cc[d].open = h.cc[d].open /\ g.cc[d].good = h.cc[d].good
                        /\ g.cc[d].requests = h.cc[d].requests /\ g.cc[d].block = h.cc[d].block
                        /\ ReadOf(g.cc[d]) = ReadOf(h.cc[d])
                        /\ (Alive(g, d) <=> Alive(h, d))
                        /\ SameCounters(h.cc[d], g.cc[d])
  BY <1>1 DEF SameClient, ReadOf, Alive, SameCounters, HasCounters
<1>3. h.sc[k].acc = c /\ c # None /\ k # None
  BY Constants DEF Core, Attached
<1>4. Pending(g, q)
  <2> SUFFICES ASSUME NEW j \in Conn, NEW r \in Req, On(q, j, r)
               PROVE  /\ \A i \in Conn : On(q, i, r) => i = j
                      /\ r[2] \in ReadOf(g.cc[r[1]])
                      /\ Alive(g, r[1]) /\ g.req[r].cmd \notin Empty =>
                           Contains(g.cc[r[1]].requests, r) /\ g.req[r].res = "none"
                      /\ j \in Private => IF g.sc[j].good THEN g.sc[j].acc = r[1]
                                          ELSE ~g.cc[r[1]].open
                      /\ j = Shared => g.req[r].cmd \notin RequirePrivate
    BY DEF Pending
  <2>1. j # k /\ r[1] \in Client
    BY Constants
  <2>2. /\ \A i \in Conn : On(q, i, r) => i = j
        /\ r[2] \in ReadOf(h.cc[r[1]])
        /\ Alive(h, r[1]) /\ h.req[r].cmd \notin Empty =>
             Contains(h.cc[r[1]].requests, r) /\ h.req[r].res = "none"
        /\ j \in Private => IF h.sc[j].good THEN h.sc[j].acc = r[1] ELSE ~h.cc[r[1]].open
        /\ j = Shared => h.req[r].cmd \notin RequirePrivate
    BY DEF Core, Pending
  <2> QED BY <1>1, <1>2, <2>1, <2>2
<1>5. Blocked(g, q)
  <2> SUFFICES ASSUME NEW j \in Conn, NEW t \in Req, On(q, j, t), Alive(g, t[1]),
                      g.req[t].cmd \in Blocking
               PROVE  /\ g.cc[t[1]].block
                      /\ \A i \in Conn, v \in Req :
                            On(q, i, v) /\ v[1] = t[1] /\ g.req[v].cmd \in Blocking => v = t
                      /\ j \in Private => q[j][Len(q[j])] = t
                      /\ j = Shared => g.cc[t[1]].conn = None
    BY DEF Blocked
  <2>1. t[1] \in Client /\ Alive(h, t[1]) /\ h.req[t].cmd \in Blocking
    BY <1>1, <1>2, Constants
  <2>2. /\ h.cc[t[1]].block
        /\ \A i \in Conn, v \in Req :
              On(q, i, v) /\ v[1] = t[1] /\ h.req[v].cmd \in Blocking => v = t
        /\ j \in Private => q[j][Len(q[j])] = t
        /\ j = Shared => h.cc[t[1]].conn = None
    BY <2>1 DEF Core, Blocked
  <2> QED BY <1>1, <1>2, <2>1, <2>2
<1>6. Attached(g)
  <2>1. \A d \in Client, j \in Conn : g.cc[d].conn = j <=> g.sc[j].acc = d
    <3> TAKE d \in Client, j \in Conn
    <3>1. h.cc[d].conn = j <=> h.sc[j].acc = d
      BY DEF Core, Attached
    <3>2. d # None /\ j # None
      BY Constants
    <3> QED BY <1>1, <1>3, <3>1, <3>2
  <2>2. \A j \in Conn : g.sc[j].acc # None => j \in Private /\ g.sc[j].good
    BY <1>1 DEF Core, Attached
  <2>3. \A d \in Client : ~g.cc[d].open => g.cc[d].conn = None /\ g.cc[d].requests = <<>>
    BY <1>1, <1>2 DEF Core, Attached
  <2> QED BY <2>1, <2>2, <2>3 DEF Attached
<1>7. ASSUME NEW d \in Client, Alive(g, d)
      PROVE  LET x == g.cc[d] IN
               /\ OneUse(x, d)
               /\ IF x.conn = None THEN Nothing(x)
                  ELSE InSync(x, s[x.conn], Count(g, q, x.conn, "watch"),
                              Count(g, q, x.conn, "multi"), Count(g, q, x.conn, "subscribe"))
  <2> DEFINE x == h.cc[d]
  <2>1. /\ OneUse(x, d)
        /\ IF x.conn = None THEN Nothing(x)
           ELSE InSync(x, s[x.conn], Count(h, q, x.conn, "watch"),
                       Count(h, q, x.conn, "multi"), Count(h, q, x.conn, "subscribe"))
    BY <1>2, <1>7 DEF Core, Counts
  <2>2. CASE d = c
    <3>1. OneUse(g.cc[d], d) /\ Nothing(g.cc[d])
      BY <1>1, <2>1, <2>2, SameSync
    <3> QED BY <1>1, <2>2, <3>1
  <2>3. CASE d # c
    <3>1. g.cc[d] = x
      BY <1>1, <2>3
    <3>2. \A j, cmd : Count(g, q, j, cmd) = Count(h, q, j, cmd)
      BY <1>1 DEF Count, Queued
    <3> QED BY <2>1, <3>1, <3>2
  <2> QED BY <2>2, <2>3
<1>8. Counts(g, s, q)
  BY <1>7 DEF Counts
<1>9. Cleared(g, s)
  <2> SUFFICES ASSUME NEW j \in Conn, j # k, g.sc[j].acc = None, Open(g.sc[j]) => g.sc[j].good
               PROVE  s[j] = Clean
    BY DEF Cleared
  <2> QED BY <1>1 DEF Core, Cleared
<1>10. Core(g, s, q)
  BY <1>1, <1>4, <1>5, <1>6, <1>8, <1>9 DEF Core, Known
<1>11. Attending(g, q, c)
  BY <1>1 DEF Attending
<1>12. ASSUME NEW d \in Client, d # c, Attending(h, q, d) PROVE Attending(g, q, d)
  BY <1>1, <1>2, <1>12 DEF Attending
<1> QED BY <1>10, <1>11, <1>12

\* A connection is opened, or closed after all: with nothing on it any more, and
\* without a client.
Reopens(h, g, s, u, q, p, k) ==
    /\ h.sc[k].acc = None /\ (h.sc[k].good => \A t \in Req : ~On(q, k, t))
    /\ g.sc[k].acc = None /\ u[k] = Clean
    /\ State(g) /\ g.cc = h.cc /\ g.req = h.req
    /\ p \in Queues /\ p[k] = <<>> /\ u \in [Conn -> Sessions]
    /\ \A j \in Conn : /\ g.sc[j].acc = h.sc[j].acc
                       /\ j # k => /\ g.sc[j].good = h.sc[j].good /\ g.sc[j].link = h.sc[j].link
                                   /\ p[j] = q[j] /\ u[j] = s[j]

\* It is kept when an empty connection becomes another one.
LEMMA ReopensKeeps ==
    ASSUME NEW h, NEW g, NEW s, NEW u, NEW q, NEW p, Core(h, s, q), NEW k \in Conn,
           Reopens(h, g, s, u, q, p, k)
    PROVE  /\ Core(g, u, p)
           /\ \A d \in Client : Attending(h, q, d) => Attending(g, p, d)
<1>1. \A j \in Conn, t \in Req : On(p, j, t) <=> On(q, j, t) /\ j # k
  BY DEF Reopens, On, Contains
<1>2. \A c \in Client : Alive(g, c) <=> Alive(h, c)
  BY DEF Reopens, Alive
<1>3. Once(p)
  <2> SUFFICES ASSUME NEW j \in Conn, NEW m \in 1..Len(p[j]), NEW n \in 1..Len(p[j]),
                      p[j][m] = p[j][n]
               PROVE  m = n
    BY DEF Once
  <2>1. CASE j = k
    <3>1. Len(p[j]) = 0
      BY <2>1 DEF Reopens
    <3> QED BY <3>1
  <2>2. CASE j # k
    BY <2>2 DEF Core, Once, Reopens
  <2> QED BY <2>1, <2>2
<1>4. Pending(g, p)
  BY <1>1, <1>2, Constants DEF Core, Pending, Reopens
<1>5. Blocked(g, p)
  <2> SUFFICES ASSUME NEW j \in Conn, NEW t \in Req, On(p, j, t), Alive(g, t[1]),
                      g.req[t].cmd \in Blocking
               PROVE  /\ g.cc[t[1]].block
                      /\ \A i \in Conn, v \in Req :
                            On(p, i, v) /\ v[1] = t[1] /\ g.req[v].cmd \in Blocking => v = t
                      /\ j \in Private => p[j][Len(p[j])] = t
                      /\ j = Shared => g.cc[t[1]].conn = None
    BY DEF Blocked
  <2>1. t[1] \in Client /\ Alive(h, t[1]) /\ h.req[t].cmd \in Blocking /\ j # k /\ On(q, j, t)
    BY <1>1, <1>2, Constants DEF Reopens
  <2>2. /\ h.cc[t[1]].block
        /\ \A i \in Conn, v \in Req :
              On(q, i, v) /\ v[1] = t[1] /\ h.req[v].cmd \in Blocking => v = t
        /\ j \in Private => q[j][Len(q[j])] = t
        /\ j = Shared => h.cc[t[1]].conn = None
    BY <2>1 DEF Core, Blocked
  <2>3. p[j] = q[j] /\ g.cc = h.cc /\ g.req = h.req
    BY <2>1 DEF Reopens
  <2> QED BY <1>1, <2>2, <2>3
<1>6. Attached(g)
  <2>1. \A j \in Conn : h.sc[j].acc # None => g.sc[j].good
    BY DEF Core, Attached, Reopens
  <2> QED BY <2>1 DEF Core, Attached, Reopens
<1>7. ASSUME NEW d \in Client, Alive(g, d)
      PROVE  LET x == g.cc[d] IN
               /\ OneUse(x, d)
               /\ IF x.conn = None THEN Nothing(x)
                  ELSE InSync(x, u[x.conn], Count(g, p, x.conn, "watch"),
                              Count(g, p, x.conn, "multi"), Count(g, p, x.conn, "subscribe"))
  <2> DEFINE x == h.cc[d]
  <2>1. /\ OneUse(x, d)
        /\ IF x.conn = None THEN Nothing(x)
           ELSE InSync(x, s[x.conn], Count(h, q, x.conn, "watch"),
                       Count(h, q, x.conn, "multi"), Count(h, q, x.conn, "subscribe"))
    BY <1>2, <1>7 DEF Core, Counts
  <2>2. g.cc[d] = x
    BY DEF Reopens
  <2>3. CASE x.conn = None
    BY <2>1, <2>2, <2>3
  <2>4. CASE x.conn # None
    <3>1. x.conn \in Conn
      BY <2>4 DEF Core, State, AcceptConn
    <3>2. x.conn # k
      BY <3>1, Constants DEF Core, Attached, Reopens
    <3>3. u[x.conn] = s[x.conn] /\ p[x.conn] = q[x.conn] /\ g.req = h.req
      BY <3>1, <3>2 DEF Reopens
    <3>4. \A cmd : Count(g, p, x.conn, cmd) = Count(h, q, x.conn, cmd)
      BY <3>3 DEF Count, Queued, On
    <3> QED BY <2>1, <2>2, <2>4, <3>3, <3>4
  <2> QED BY <2>3, <2>4
<1>8. Counts(g, u, p)
  BY <1>7 DEF Counts
<1>9. Cleared(g, u)
  BY DEF Core, Cleared, Reopens, Open
<1>10. Core(g, u, p)
  BY <1>3, <1>4, <1>5, <1>6, <1>8, <1>9 DEF Core, Reopens, Known
<1>11. ASSUME NEW d \in Client, Attending(h, q, d) PROVE Attending(g, p, d)
  <2>1. g.cc = h.cc /\ g.req = h.req
    BY DEF Reopens
  <2>2. h.cc[d].conn # None => h.cc[d].conn \in Conn
    BY DEF Core, State, AcceptConn
  <2> QED BY <1>1, <1>2, <1>11, <2>1, <2>2 DEF Attending
<1> QED BY <1>10, <1>11

-----------------------------------------------------------------------------
(* A request joins a connection.                                           *)

\* What cmd adds to a counter for commands of its kind.
Adds(cmd, kind) == IF cmd = kind THEN 1 ELSE 0

\* Request r, of a client that is not blocked, is queued on connection k: the one
\* attached to the client, the shared one, or one that it is attached to now.
Joins(h, g, s, q, p, k, r) ==
    /\ \A j \in Conn : ~On(q, j, r)
    /\ p \in Queues /\ More(q[k], p[k], r) /\ \A j \in Conn : j # k => p[j] = q[j]
    /\ \/ h.cc[r[1]].conn = k
       \/ h.cc[r[1]].conn = None /\ h.req[r].cmd \notin RequirePrivate /\ k = Shared
       \/ /\ h.cc[r[1]].conn = None /\ h.req[r].cmd \in RequirePrivate
          /\ k \in Private /\ h.sc[k].good /\ h.sc[k].acc = None /\ \A t \in Req : ~On(q, k, t)
    /\ Alive(h, r[1]) /\ ~h.cc[r[1]].block /\ Attending(h, q, r[1])
    /\ r[2] \in ReadOf(h.cc[r[1]]) /\ Contains(h.cc[r[1]].requests, r)
    /\ h.req[r].cmd \in Empty \/ h.req[r].res = "none"
    /\ State(g) /\ g.req = h.req
    /\ \A d \in Client : SameClient(h.cc[d], g.cc[d]) /\ (d # r[1] => SameAs(h.cc[d], g.cc[d]))
    /\ g.cc[r[1]].conn = (IF h.req[r].cmd \in RequirePrivate THEN k ELSE h.cc[r[1]].conn)
    /\ g.cc[r[1]].block = (h.req[r].cmd \in Blocking)
    /\ HasCounters(g.cc[r[1]], h.cc[r[1]].pendWatch + Adds(h.req[r].cmd, "watch"), h.cc[r[1]].watch,
                   h.cc[r[1]].pendMulti + Adds(h.req[r].cmd, "multi"), h.cc[r[1]].multi,
                   h.cc[r[1]].pendSub + Adds(h.req[r].cmd, "subscribe"), h.cc[r[1]].sub)
    /\ \A j \in Conn : g.sc[j].link = h.sc[j].link /\ g.sc[j].good = h.sc[j].good
    /\ \A j \in Conn : g.sc[j].acc = IF j = k /\ h.req[r].cmd \in RequirePrivate
                                     THEN r[1] ELSE h.sc[j].acc

\* It is kept when a request joins a connection and its client counts it.
LEMMA JoinsKeeps ==
    ASSUME NEW h, NEW g, NEW s, NEW q, NEW p, Core(h, s, q), NEW k \in Conn, NEW r \in Req,
           Joins(h, g, s, q, p, k, r)
    PROVE  /\ Core(g, s, p) /\ Attending(g, p, r[1])
           /\ \A d \in Client : d # r[1] /\ Attending(h, q, d) => Attending(g, p, d)
<1> DEFINE c == r[1]
           cmd == h.req[r].cmd
           x == h.cc[c]
           y == g.cc[c]
<1>1. c \in Client /\ c # None /\ k # None
  BY Constants
<1>2. /\ Alive(h, c) /\ ~x.block /\ r[2] \in ReadOf(x) /\ Contains(x.requests, r)
      /\ cmd \in Empty \/ h.req[r].res = "none"
      /\ y.conn = (IF cmd \in RequirePrivate THEN k ELSE x.conn)
      /\ y.block = (cmd \in Blocking)
      /\ g.req = h.req
      /\ HasCounters(y, x.pendWatch + Adds(cmd, "watch"), x.watch, x.pendMulti + Adds(cmd, "multi"),
                     x.multi, x.pendSub + Adds(cmd, "subscribe"), x.sub)
      /\ \A d \in Client : d # c => SameAs(h.cc[d], g.cc[d])
      /\ \A j \in Conn : g.sc[j].link = h.sc[j].link /\ g.sc[j].good = h.sc[j].good
      /\ \A j \in Conn : g.sc[j].acc = IF j = k /\ cmd \in RequirePrivate THEN c ELSE h.sc[j].acc
  BY DEF Joins
<1>3. \A d \in Client : /\ g.cc[d].open = h.cc[d].open /\ g.cc[d].good = h.cc[d].good
                        /\ g.cc[d].requests = h.cc[d].requests
                        /\ ReadOf(g.cc[d]) = ReadOf(h.cc[d])
                        /\ (Alive(g, d) <=> Alive(h, d))
                        /\ d # c => /\ SameCounters(h.cc[d], g.cc[d])
                                    /\ g.cc[d].block = h.cc[d].block
                                    /\ g.cc[d].conn = h.cc[d].conn
  BY DEF Joins, SameClient, ReadOf, Alive, SameAs, Apart
<1>4. \A j \in Conn, t \in Req : On(p, j, t) <=> On(q, j, t) \/ (j = k /\ t = r)
  BY DEF Joins, More, On
<1>5. \A j \in Conn : ~On(q, j, r)
  BY DEF Joins
<1>6. \/ x.conn = k /\ h.sc[k].acc = c /\ k \in Private /\ h.sc[k].good
      \/ x.conn = None /\ cmd \notin RequirePrivate /\ k = Shared
      \/ /\ x.conn = None /\ cmd \in RequirePrivate
         /\ k \in Private /\ h.sc[k].good /\ h.sc[k].acc = None /\ \A t \in Req : ~On(q, k, t)
  BY <1>1 DEF Core, Attached, Joins
<1>7. \A j \in Conn, t \in Req :
         On(q, j, t) /\ t[1] = c /\ Alive(h, c) => h.req[t].cmd \notin Blocking
  BY <1>2 DEF Core, Blocked
<1>8. \A t \in Req : t[1] \in Client
  BY Constants
<1> HIDE DEF c, cmd, x, y
<1>9. Once(p)
  BY DEF Core, Once, Joins, More
<1>10. Pending(g, p)
  <2> SUFFICES ASSUME NEW j \in Conn, NEW t \in Req, On(p, j, t)
               PROVE  /\ \A i \in Conn : On(p, i, t) => i = j
                      /\ t[2] \in ReadOf(g.cc[t[1]])
                      /\ Alive(g, t[1]) /\ g.req[t].cmd \notin Empty =>
                           Contains(g.cc[t[1]].requests, t) /\ g.req[t].res = "none"
                      /\ j \in Private => IF g.sc[j].good THEN g.sc[j].acc = t[1]
                                          ELSE ~g.cc[t[1]].open
                      /\ j = Shared => g.req[t].cmd \notin RequirePrivate
    BY DEF Pending
  <2>1. CASE t = r
    <3>1. j = k /\ \A i \in Conn : On(p, i, t) => i = j
      BY <1>4, <1>5, <2>1
    <3>2. t[2] \in ReadOf(g.cc[t[1]]) /\ Contains(g.cc[t[1]].requests, t)
      BY <1>1, <1>2, <1>3, <2>1 DEF c, x
    <3>3. g.req[t].cmd \notin Empty => g.req[t].res = "none"
      BY <1>2, <2>1 DEF cmd
    <3>4. j \in Private => g.sc[j].good /\ g.sc[j].acc = c
      BY <1>1, <1>2, <1>6, <3>1, Constants
    <3>5. j = Shared => cmd \notin RequirePrivate
      BY <1>6, <3>1, Constants
    <3> QED BY <1>2, <2>1, <3>1, <3>2, <3>3, <3>4, <3>5 DEF c, cmd
  <2>2. CASE t # r
    <3>1. On(q, j, t) /\ \A i \in Conn : On(p, i, t) => On(q, i, t)
      BY <1>4, <2>2
    <3>2. /\ \A i \in Conn : On(q, i, t) => i = j
          /\ t[2] \in ReadOf(h.cc[t[1]])
          /\ Alive(h, t[1]) /\ h.req[t].cmd \notin Empty =>
               Contains(h.cc[t[1]].requests, t) /\ h.req[t].res = "none"
          /\ j \in Private => IF h.sc[j].good THEN h.sc[j].acc = t[1] ELSE ~h.cc[t[1]].open
          /\ j = Shared => h.req[t].cmd \notin RequirePrivate
      BY <3>1 DEF Core, Pending
    <3>3. /\ ReadOf(g.cc[t[1]]) = ReadOf(h.cc[t[1]])
          /\ (Alive(g, t[1]) <=> Alive(h, t[1]))
          /\ g.cc[t[1]].requests = h.cc[t[1]].requests /\ g.cc[t[1]].open = h.cc[t[1]].open
      BY <1>3, <1>8
    <3>4. j \in Private => IF g.sc[j].good THEN g.sc[j].acc = t[1] ELSE ~g.cc[t[1]].open
      <4>1. CASE j = k /\ cmd \in RequirePrivate
        BY <1>2, <1>6, <3>1, <3>2, <3>3, <4>1
      <4>2. CASE ~(j = k /\ cmd \in RequirePrivate)
        BY <1>2, <3>2, <3>3, <4>2
      <4> QED BY <4>1, <4>2
    <3>5. /\ \A i \in Conn : On(p, i, t) => i = j
          /\ Alive(g, t[1]) /\ g.req[t].cmd \notin Empty =>
               Contains(g.cc[t[1]].requests, t) /\ g.req[t].res = "none"
          /\ j = Shared => g.req[t].cmd \notin RequirePrivate
      BY <1>2, <3>1, <3>2, <3>3
    <3> QED BY <3>2, <3>3, <3>4, <3>5
  <2> QED BY <2>1, <2>2
<1>11. Blocked(g, p)
  <2> SUFFICES ASSUME NEW j \in Conn, NEW t \in Req, On(p, j, t), Alive(g, t[1]),
                      g.req[t].cmd \in Blocking
               PROVE  /\ g.cc[t[1]].block
                      /\ \A i \in Conn, v \in Req :
                            On(p, i, v) /\ v[1] = t[1] /\ g.req[v].cmd \in Blocking => v = t
                      /\ j \in Private => p[j][Len(p[j])] = t
                      /\ j = Shared => g.cc[t[1]].conn = None
    BY DEF Blocked
  <2>1. CASE t = r
    <3>1. j = k /\ cmd \in Blocking /\ t[1] = c
      BY <1>2, <1>4, <1>5, <2>1 DEF c, cmd
    <3>2. g.cc[t[1]].block
      BY <1>2, <3>1 DEF y
    <3>3. ASSUME NEW i \in Conn, NEW v \in Req, On(p, i, v), v[1] = t[1], g.req[v].cmd \in Blocking
          PROVE  v = t
      BY <1>2, <1>4, <1>7, <2>1, <3>1, <3>3
    <3>4. p[j][Len(p[j])] = t
      BY <2>1, <3>1 DEF Joins, More
    <3>5. j = Shared => g.cc[t[1]].conn = None
      BY <1>2, <1>6, <3>1, Constants DEF y
    <3> QED BY <3>2, <3>3, <3>4, <3>5
  <2>2. CASE t # r
    <3>1. On(q, j, t) /\ Alive(h, t[1]) /\ h.req[t].cmd \in Blocking
      BY <1>2, <1>3, <1>4, <1>8, <2>2
    <3>2. t[1] # c
      BY <1>7, <3>1
    <3>3. /\ h.cc[t[1]].block
          /\ \A i \in Conn, v \in Req :
                On(q, i, v) /\ v[1] = t[1] /\ h.req[v].cmd \in Blocking => v = t
          /\ j \in Private => q[j][Len(q[j])] = t
          /\ j = Shared => h.cc[t[1]].conn = None
      BY <3>1 DEF Core, Blocked
    <3>4. g.cc[t[1]].block = h.cc[t[1]].block /\ g.cc[t[1]].conn = h.cc[t[1]].conn
      BY <1>3, <1>8, <3>2
    <3>5. ASSUME NEW i \in Conn, NEW v \in Req, On(p, i, v), v[1] = t[1], g.req[v].cmd \in Blocking
          PROVE  v = t
      <4>1. v # r
        BY <3>2, <3>5 DEF c
      <4> QED BY <1>2, <1>4, <3>3, <3>5, <4>1
    <3>6. j \in Private => p[j][Len(p[j])] = t
      <4>1. CASE j # k
        BY <3>3, <4>1 DEF Joins
      <4>2. CASE j = k
        <5>1. j \notin Private
          <6> SUFFICES ASSUME j \in Private PROVE FALSE
            OBVIOUS
          <6>1. h.sc[k].good /\ (h.sc[k].acc = c \/ \A u \in Req : ~On(q, k, u))
            BY <1>6, <4>2, Constants
          <6>2. h.sc[k].acc = t[1]
            BY <3>1, <4>2, <6>1 DEF Core, Pending
          <6> QED BY <3>1, <3>2, <4>2, <6>1, <6>2
        <5> QED BY <5>1
      <4> QED BY <4>1, <4>2
    <3> QED BY <3>3, <3>4, <3>5, <3>6
  <2> QED BY <2>1, <2>2
<1>12. Attached(g)
  <2>1. ASSUME NEW d \in Client, NEW j \in Conn PROVE g.cc[d].conn = j <=> g.sc[j].acc = d
    <3>1. h.cc[d].conn = j <=> h.sc[j].acc = d
      BY DEF Core, Attached
    <3>2. h.cc[c].conn = j <=> h.sc[j].acc = c
      BY <1>1 DEF Core, Attached
    <3>3. d # None /\ j # None
      BY Constants
    <3>4. CASE cmd \notin RequirePrivate
      BY <1>2, <1>3, <3>1, <3>4 DEF x, y
    <3>5. CASE cmd \in RequirePrivate
      <4>1. \/ x.conn = k /\ h.sc[k].acc = c
            \/ x.conn = None /\ h.sc[k].acc = None
        BY <1>6, <3>5
      <4>2. CASE d = c
        BY <1>1, <1>2, <3>2, <3>3, <3>5, <4>1, <4>2 DEF x, y
      <4>3. CASE d # c
        BY <1>1, <1>2, <1>3, <3>1, <3>3, <3>5, <4>1, <4>3
      <4> QED BY <4>2, <4>3
    <3> QED BY <3>4, <3>5
  <2>2. \A j \in Conn : g.sc[j].acc # None => j \in Private /\ g.sc[j].good
    <3> TAKE j \in Conn
    <3>1. h.sc[j].acc # None => j \in Private /\ h.sc[j].good
      BY DEF Core, Attached
    <3> QED BY <1>2, <1>6, <3>1
  <2>3. ASSUME NEW d \in Client, ~g.cc[d].open PROVE g.cc[d].conn = None /\ g.cc[d].requests = <<>>
    <3>1. ~h.cc[d].open /\ d # c
      BY <1>2, <1>3, <2>3 DEF Alive
    <3> QED BY <1>3, <3>1 DEF Core, Attached
  <2> QED BY <2>1, <2>2, <2>3 DEF Attached
<1>13. ASSUME NEW d \in Client, Alive(g, d)
       PROVE  LET z == g.cc[d] IN
                /\ OneUse(z, d)
                /\ IF z.conn = None THEN Nothing(z)
                   ELSE InSync(z, s[z.conn], Count(g, p, z.conn, "watch"),
                               Count(g, p, z.conn, "multi"), Count(g, p, z.conn, "subscribe"))
  <2> DEFINE z == h.cc[d]
  <2>1. /\ OneUse(z, d)
        /\ IF z.conn = None THEN Nothing(z)
           ELSE InSync(z, s[z.conn], Count(h, q, z.conn, "watch"),
                       Count(h, q, z.conn, "multi"), Count(h, q, z.conn, "subscribe"))
    BY <1>3, <1>13 DEF Core, Counts
  <2>2. z.conn # None => z.conn \in Conn
    BY DEF Core, State, AcceptConn
  <2>3. CASE d # c
    <3>1. SameCounters(z, g.cc[d]) /\ g.cc[d].conn = z.conn
      BY <1>3, <2>3
    <3>2. z.conn # None => z.conn # k
      <4> SUFFICES ASSUME z.conn = k PROVE FALSE
        OBVIOUS
      <4>1. h.sc[k].acc = d /\ d # None
        BY Constants DEF Core, Attached
      <4> QED BY <1>1, <1>6, <2>3, <4>1, Constants DEF Core, Attached
    <3>3. z.conn # None => \A cmd_1 : Count(g, p, z.conn, cmd_1) = Count(h, q, z.conn, cmd_1)
      <4>1. z.conn # None => p[z.conn] = q[z.conn]
        BY <2>2, <3>2 DEF Joins
      <4> QED BY <1>2, <4>1 DEF Count, Queued, On
    <3> HIDE DEF z
    <3> QED BY <2>1, <3>1, <3>3, SameSync
  <2>4. CASE d = c
    <3>1. /\ x.pendWatch \in Nat /\ x.watch \in Nat /\ x.pendMulti \in Nat /\ x.multi \in Nat
          /\ x.pendSub \in Nat /\ x.sub \in Nat
      BY <1>1 DEF Core, State, AcceptConn, x
    <3>2. /\ y.pendWatch = x.pendWatch + Adds(cmd, "watch") /\ y.watch = x.watch
          /\ y.pendMulti = x.pendMulti + Adds(cmd, "multi") /\ y.multi = x.multi
          /\ y.pendSub = x.pendSub + Adds(cmd, "subscribe") /\ y.sub = x.sub
      BY <1>2 DEF HasCounters
    <3>3. /\ Adds(cmd, "watch") \in Nat /\ Adds(cmd, "multi") \in Nat
          /\ Adds(cmd, "subscribe") \in Nat
          /\ cmd # "watch" => Adds(cmd, "watch") = 0
          /\ cmd # "multi" => Adds(cmd, "multi") = 0
          /\ cmd # "subscribe" => Adds(cmd, "subscribe") = 0
      BY DEF Adds
    <3>4. cmd \in Uses[c] \cup {"none", "submsg"}
      BY DEF Core, Known, c, cmd
    <3>5. OneUse(y, c)
      BY <2>1, <2>4, <3>1, <3>2, <3>3, <3>4 DEF OneUse, x
    <3>6. CASE y.conn = None
      <4>1. x.conn = None /\ cmd \notin RequirePrivate
        BY <1>1, <1>2, <3>6
      <4>2. Nothing(x) /\ cmd # "watch" /\ cmd # "multi" /\ cmd # "subscribe"
        BY <2>1, <2>4, <4>1 DEF RequirePrivate, x
      <4>3. Nothing(y)
        BY <3>1, <3>2, <3>3, <4>2 DEF Nothing
      <4> QED BY <2>4, <3>5, <3>6, <4>3 DEF y
    <3>7. CASE y.conn # None
      <4>1. y.conn = k
        BY <1>2, <1>6, <3>7
      <4>2. InSync(x, s[k], Count(h, q, k, "watch"), Count(h, q, k, "multi"),
                   Count(h, q, k, "subscribe"))
        <5>1. CASE x.conn = k
          BY <1>1, <2>1, <2>4, <5>1 DEF x
        <5>2. CASE x.conn # k
          <6>1. x.conn = None /\ h.sc[k].good /\ h.sc[k].acc = None /\ \A t \in Req : ~On(q, k, t)
            BY <1>2, <1>6, <3>7, <5>2
          <6>2. s[k] = Clean
            BY <6>1 DEF Core, Cleared
          <6>3. Nothing(x)
            BY <2>1, <2>4, <6>1 DEF x
          <6>4. /\ Count(h, q, k, "watch") = 0 /\ Count(h, q, k, "multi") = 0
                /\ Count(h, q, k, "subscribe") = 0
            BY <6>1, CountNone
          <6> QED BY <6>2, <6>3, <6>4 DEF Nothing, InSync, Clean
        <5> QED BY <5>1, <5>2
      <4>3. \A kind : Count(g, p, k, kind) = Count(h, q, k, kind) + Adds(cmd, kind)
        <5> TAKE kind
        <5>1. \A t \in Req : On(p, k, t) <=> On(q, k, t) \/ t = r
          BY <1>4
        <5>2. \A t \in Req : g.req[t].cmd = h.req[t].cmd
          BY <1>2
        <5> QED BY <1>5, <5>1, <5>2, CountMore DEF Adds, cmd
      <4>4. \A kind : Count(h, q, k, kind) \in Nat
        BY CountIs
      <4> DEFINE w == Count(h, q, k, "watch")
                 m == Count(h, q, k, "multi")
                 n == Count(h, q, k, "subscribe")
      <4>5. w \in Nat /\ m \in Nat /\ n \in Nat
        BY <4>4
      <4>6. InSync(y, s[k], w + Adds(cmd, "watch"), m + Adds(cmd, "multi"),
                   n + Adds(cmd, "subscribe"))
        <5> HIDE DEF w, m, n
        <5>1. InSync(x, s[k], w, m, n)
          BY <4>2 DEF w, m, n
        <5> QED BY ONLY <3>1, <3>2, <3>3, <4>5, <5>1 DEF InSync
      <4> QED BY <2>4, <3>5, <3>7, <4>1, <4>3, <4>6 DEF y
    <3> QED BY <3>6, <3>7
  <2> QED BY <2>3, <2>4
<1>14. Counts(g, s, p)
  BY <1>13 DEF Counts
<1>15. Cleared(g, s)
  <2> SUFFICES ASSUME NEW j \in Conn, g.sc[j].acc = None, Open(g.sc[j]) => g.sc[j].good
               PROVE  s[j] = Clean
    BY DEF Cleared
  <2>1. h.sc[j].acc = None /\ (Open(h.sc[j]) => h.sc[j].good)
    BY <1>1, <1>2 DEF Open
  <2> QED BY <2>1 DEF Core, Cleared
<1>16. Core(g, s, p)
  BY <1>9, <1>10, <1>11, <1>12, <1>14, <1>15 DEF Core, Joins, Known
<1>17. Attending(g, p, c)
  <2> SUFFICES ASSUME y.conn # None, ~Holds(y)
               PROVE  y.block /\ \A t \in Req : On(p, y.conn, t) => g.req[t].cmd \in Blocking
    BY DEF Attending, y
  <2>1. y.conn = k
    BY <1>2, <1>6
  <2>2. /\ x.pendWatch \in Nat /\ x.pendMulti \in Nat /\ x.pendSub \in Nat /\ x.sub \in Nat
    BY <1>1 DEF Core, State, AcceptConn, x
  <2>3. /\ y.pendWatch = x.pendWatch + Adds(cmd, "watch")
        /\ y.pendMulti = x.pendMulti + Adds(cmd, "multi")
        /\ y.pendSub = x.pendSub + Adds(cmd, "subscribe") /\ y.sub = x.sub
    BY <1>2 DEF HasCounters
  <2>4. /\ Adds(cmd, "watch") \in Nat /\ Adds(cmd, "multi") \in Nat
        /\ Adds(cmd, "subscribe") \in Nat
        /\ cmd = "watch" => Adds(cmd, "watch") = 1
        /\ cmd = "multi" => Adds(cmd, "multi") = 1
        /\ cmd = "subscribe" => Adds(cmd, "subscribe") = 1
    BY DEF Adds
  <2>5. ~Holds(x) /\ cmd \notin {"watch", "multi", "subscribe"}
    BY <2>2, <2>3, <2>4 DEF Holds, InTransaction, InSub
  <2>6. x.conn = None
    <3>1. x.conn # None => x.block
      BY <1>2, <2>5 DEF Joins, Attending, c, x
    <3> QED BY <1>2, <3>1
  <2>7. cmd = "blpop" /\ \A t \in Req : ~On(q, k, t)
    BY <1>1, <1>2, <1>6, <2>1, <2>5, <2>6 DEF RequirePrivate
  <2>8. cmd \in Blocking
    BY <2>7 DEF Blocking
  <2> QED BY <1>2, <1>4, <2>1, <2>7, <2>8 DEF cmd
<1>18. ASSUME NEW d \in Client, d # c, Attending(h, q, d) PROVE Attending(g, p, d)
  <2>1. /\ SameCounters(h.cc[d], g.cc[d]) /\ g.cc[d].block = h.cc[d].block
        /\ g.cc[d].conn = h.cc[d].conn /\ (Alive(g, d) <=> Alive(h, d))
    BY <1>3, <1>18
  <2>2. Holds(h.cc[d]) <=> Holds(g.cc[d])
    BY <2>1, SameHolds
  <2>3. h.cc[d].conn # None => h.cc[d].conn \in Conn /\ h.cc[d].conn # k
    <3>1. h.cc[d].conn # None => h.cc[d].conn \in Conn
      BY DEF Core, State, AcceptConn
    <3>2. h.cc[d].conn = k => h.sc[k].acc = d
      BY DEF Core, Attached
    <3>3. d # None
      BY Constants
    <3> QED BY <1>1, <1>6, <1>18, <3>1, <3>2, <3>3, Constants DEF Core, Attached
  <2> QED BY <1>2, <1>4, <1>18, <2>1, <2>2, <2>3 DEF Attending
<1> QED BY <1>16, <1>17, <1>18 DEF c

\* Client c is closed, and the connection that was attached to it goes wrong.
Closes(h, g, c) ==
    /\ State(g) /\ g.req = h.req
    /\ \A d \in Client : d # c => SameAs(h.cc[d], g.cc[d])
    /\ ~g.cc[c].open /\ g.cc[c].requests = <<>> /\ g.cc[c].conn = None
    /\ ReadOf(g.cc[c]) = ReadOf(h.cc[c])
    /\ \A j \in Conn : g.sc[j].link = h.sc[j].link
    /\ \A j \in Conn : IF h.cc[c].conn = j
                       THEN ~g.sc[j].good /\ g.sc[j].acc = None /\ Open(h.sc[j])
                       ELSE g.sc[j].good = h.sc[j].good /\ g.sc[j].acc = h.sc[j].acc

\* It is kept when a client is closed, and its connection marked.
LEMMA ClosesKeeps ==
    ASSUME NEW h, NEW g, NEW s, NEW q, Core(h, s, q), NEW c \in Client, Closes(h, g, c)
    PROVE  /\ Core(g, s, q)
           /\ \A d \in Client : Attending(h, q, d) => Attending(g, q, d)
<1>1. /\ \A d \in Client : d # c => /\ SameAs(h.cc[d], g.cc[d])
                                    /\ (Alive(g, d) <=> Alive(h, d))
                                    /\ g.cc[d].conn = h.cc[d].conn
                                    /\ g.cc[d].open = h.cc[d].open
                                    /\ g.cc[d].block = h.cc[d].block
                                    /\ g.cc[d].requests = h.cc[d].requests
      /\ \A d \in Client : ReadOf(g.cc[d]) = ReadOf(h.cc[d])
      /\ ~Alive(g, c)
      /\ \A t \in Req : t[1] \in Client /\ g.req[t] = h.req[t]
  BY Constants DEF Closes, SameAs, Apart, ReadOf, Alive
<1>2. \A j \in Conn : h.cc[c].conn = j <=> h.sc[j].acc = c
  BY DEF Core, Attached
<1>3. Pending(g, q)
  <2> SUFFICES ASSUME NEW j \in Conn, NEW t \in Req, On(q, j, t)
               PROVE  /\ \A i \in Conn : On(q, i, t) => i = j
                      /\ t[2] \in ReadOf(g.cc[t[1]])
                      /\ Alive(g, t[1]) /\ g.req[t].cmd \notin Empty =>
                           Contains(g.cc[t[1]].requests, t) /\ g.req[t].res = "none"
                      /\ j \in Private => IF g.sc[j].good THEN g.sc[j].acc = t[1]
                                          ELSE ~g.cc[t[1]].open
                      /\ j = Shared => g.req[t].cmd \notin RequirePrivate
    BY DEF Pending
  <2>1. /\ \A i \in Conn : On(q, i, t) => i = j
        /\ t[2] \in ReadOf(h.cc[t[1]])
        /\ Alive(h, t[1]) /\ h.req[t].cmd \notin Empty =>
             Contains(h.cc[t[1]].requests, t) /\ h.req[t].res = "none"
        /\ j \in Private => IF h.sc[j].good THEN h.sc[j].acc = t[1] ELSE ~h.cc[t[1]].open
        /\ j = Shared => h.req[t].cmd \notin RequirePrivate
    BY DEF Core, Pending
  <2>2. j \in Private => IF g.sc[j].good THEN g.sc[j].acc = t[1] ELSE ~g.cc[t[1]].open
    <3>1. CASE h.cc[c].conn = j
      <4>1. ~g.sc[j].good /\ h.sc[j].acc = c /\ c # None
        BY <1>2, <3>1, Constants DEF Closes
      <4>2. h.sc[j].good
        BY <4>1 DEF Core, Attached
      <4>3. j \in Private => t[1] = c
        BY <2>1, <4>1, <4>2
      <4> QED BY <4>1, <4>3 DEF Closes
    <3>2. CASE h.cc[c].conn # j
      <4>1. g.sc[j].good = h.sc[j].good /\ g.sc[j].acc = h.sc[j].acc
        BY <3>2 DEF Closes
      <4>2. ~h.cc[t[1]].open => ~g.cc[t[1]].open
        BY <1>1 DEF Closes
      <4> QED BY <2>1, <4>1, <4>2
    <3> QED BY <3>1, <3>2
  <2> QED BY <1>1, <2>1, <2>2
<1>4. Blocked(g, q)
  <2> SUFFICES ASSUME NEW j \in Conn, NEW t \in Req, On(q, j, t), Alive(g, t[1]),
                      g.req[t].cmd \in Blocking
               PROVE  /\ g.cc[t[1]].block
                      /\ \A i \in Conn, v \in Req :
                            On(q, i, v) /\ v[1] = t[1] /\ g.req[v].cmd \in Blocking => v = t
                      /\ j \in Private => q[j][Len(q[j])] = t
                      /\ j = Shared => g.cc[t[1]].conn = None
    BY DEF Blocked
  <2>1. t[1] \in Client /\ t[1] # c /\ Alive(h, t[1]) /\ h.req[t].cmd \in Blocking
    BY <1>1
  <2>2. /\ h.cc[t[1]].block
        /\ \A i \in Conn, v \in Req :
              On(q, i, v) /\ v[1] = t[1] /\ h.req[v].cmd \in Blocking => v = t
        /\ j \in Private => q[j][Len(q[j])] = t
        /\ j = Shared => h.cc[t[1]].conn = None
    BY <2>1 DEF Core, Blocked
  <2> QED BY <1>1, <2>1, <2>2
<1>5. Attached(g)
  <2>1. ASSUME NEW d \in Client, NEW j \in Conn PROVE g.cc[d].conn = j <=> g.sc[j].acc = d
    <3>1. h.cc[d].conn = j <=> h.sc[j].acc = d
      BY DEF Core, Attached
    <3>2. d # None /\ j # None
      BY Constants
    <3>3. CASE d = c
      BY <1>2, <3>1, <3>2, <3>3 DEF Closes
    <3>4. CASE d # c
      BY <1>1, <1>2, <3>1, <3>2, <3>4 DEF Closes
    <3> QED BY <3>3, <3>4
  <2>2. ASSUME NEW j \in Conn, g.sc[j].acc # None PROVE j \in Private /\ g.sc[j].good
    <3>1. g.sc[j].good = h.sc[j].good /\ h.sc[j].acc # None
      BY <2>2 DEF Closes
    <3> QED BY <3>1 DEF Core, Attached
  <2>3. ASSUME NEW d \in Client, ~g.cc[d].open PROVE g.cc[d].conn = None /\ g.cc[d].requests = <<>>
    <3>1. CASE d = c
      BY <3>1 DEF Closes
    <3>2. CASE d # c
      BY <1>1, <2>3, <3>2 DEF Core, Attached
    <3> QED BY <3>1, <3>2
  <2> QED BY <2>1, <2>2, <2>3 DEF Attached
<1>6. ASSUME NEW d \in Client, Alive(g, d)
      PROVE  LET x == g.cc[d] IN
               /\ OneUse(x, d)
               /\ IF x.conn = None THEN Nothing(x)
                  ELSE InSync(x, s[x.conn], Count(g, q, x.conn, "watch"),
                              Count(g, q, x.conn, "multi"), Count(g, q, x.conn, "subscribe"))
  <2> DEFINE x == h.cc[d]
             y == g.cc[d]
  <2>1. d # c /\ Alive(h, d) /\ SameCounters(x, y) /\ y.conn = x.conn
    BY <1>1, <1>6 DEF SameAs
  <2>2. /\ OneUse(x, d)
        /\ IF x.conn = None THEN Nothing(x)
           ELSE InSync(x, s[x.conn], Count(h, q, x.conn, "watch"),
                       Count(h, q, x.conn, "multi"), Count(h, q, x.conn, "subscribe"))
    BY <2>1 DEF Core, Counts
  <2>3. \A j, cmd : Count(g, q, j, cmd) = Count(h, q, j, cmd)
    BY DEF Count, Queued, Closes
  <2> HIDE DEF x, y
  <2>4. OneUse(y, d) /\ (IF y.conn = None THEN Nothing(y)
           ELSE InSync(y, s[y.conn], Count(g, q, y.conn, "watch"),
                       Count(g, q, y.conn, "multi"), Count(g, q, y.conn, "subscribe")))
    BY <2>1, <2>2, <2>3, SameSync
  <2> QED BY <2>4 DEF y
<1>7. Counts(g, s, q)
  BY <1>6 DEF Counts
<1>8. Cleared(g, s)
  <2> SUFFICES ASSUME NEW j \in Conn, g.sc[j].acc = None, Open(g.sc[j]) => g.sc[j].good
               PROVE  s[j] = Clean
    BY DEF Cleared
  <2>1. g.sc[j].link = h.sc[j].link
    BY DEF Closes
  <2>2. CASE h.cc[c].conn = j
    BY <2>1, <2>2 DEF Closes, Open
  <2>3. CASE h.cc[c].conn # j
    <3>1. g.sc[j].good = h.sc[j].good /\ g.sc[j].acc = h.sc[j].acc
      BY <2>3 DEF Closes
    <3> QED BY <2>1, <3>1 DEF Core, Cleared, Open
  <2> QED BY <2>2, <2>3
<1>9. Core(g, s, q)
  BY <1>3, <1>4, <1>5, <1>7, <1>8 DEF Core, Closes, Known
<1>10. ASSUME NEW d \in Client, Attending(h, q, d) PROVE Attending(g, q, d)
  <2>1. CASE d = c
    BY <1>1, <2>1 DEF Attending
  <2>2. CASE d # c
    <3>1. Holds(h.cc[d]) <=> Holds(g.cc[d])
      BY <1>1, <2>2, SameHolds DEF SameAs
    <3> QED BY <1>1, <1>10, <2>2, <3>1 DEF Attending
  <2> QED BY <2>1, <2>2
<1> QED BY <1>9, <1>10

-----------------------------------------------------------------------------
(* The two lists.                                                          *)

\* A connection that is in list l, but for its own part, is run through as before.
LEMMA RunsSame ==
    ASSUME NEW h, NEW g, NEW l, NEW w, Runs(h, l, w), NEW m, m = l,
           \A k \in Conn : Contains(w, k) => g.sc[k].next = h.sc[k].next
    PROVE  Runs(g, m, w)
<1>1. w \in Seq(Conn) /\ \A i \in 1..Len(w) : w[i] \in Conn /\ Contains(w, w[i])
  BY DEF Runs, Contains
<1> QED BY <1>1 DEF Runs

\* What push_back leaves ...
Pushed(h, list, k, g) ==
    /\ State(g) /\ g.cc = h.cc /\ g.req = h.req /\ g.postA = h.postA
    /\ g[list].head = (IF h[list].tail = None THEN k ELSE h[list].head)
    /\ g[list].tail = k /\ g[list].size = h[list].size + 1
    /\ \A other \in {"idle", "postS"} : other # list => g[other] = h[other]
    /\ \A j \in Conn : /\ SameConn(h.sc[j], g.sc[j])
                       /\ g.sc[j].post = h.sc[j].post /\ g.sc[j].acc = h.sc[j].acc
                       /\ g.sc[j].next = IF j = h[list].tail THEN k ELSE h.sc[j].next

\* What pushBack does.
LEMMA PushBackIs ==
    ASSUME NEW h, State(h), NEW list \in {"idle", "postS"}, NEW k \in Conn,
           NEW g, g = PushBack(h, list, k)
    PROVE  Pushed(h, list, k, g)
<1> DEFINE t == h[list].tail
           y == [h.sc[t] EXCEPT !.next = k]
           longer(l) == IF t = None THEN [[l EXCEPT !.head = k] EXCEPT !.tail = k, !.size = @ + 1]
                        ELSE [l EXCEPT !.tail = k, !.size = @ + 1]
<1>1. /\ g.cc = h.cc /\ g.req = h.req /\ g.postA = h.postA
      /\ g.sc = IF t = None THEN h.sc ELSE [h.sc EXCEPT ![t] = y]
      /\ g.idle = IF list = "idle" THEN longer(h.idle) ELSE h.idle
      /\ g.postS = IF list = "postS" THEN longer(h.postS) ELSE h.postS
  <2>1. CASE list = "idle"
    BY <2>1 DEF PushBack, State, Parts
  <2>2. CASE list = "postS"
    BY <2>2 DEF PushBack, State, Parts
  <2> QED BY <2>1, <2>2
<1>2. State(g) /\ \A j \in Conn : SameConn(h.sc[j], g.sc[j])
  BY PushBackFrame DEF Frame, SameConns
<1>3. t \in Conn \cup {None} /\ h[list] \in List
  BY DEF State, List
<1>4. ASSUME NEW l \in List
      PROVE  /\ longer(l).head = (IF t = None THEN k ELSE l.head)
             /\ longer(l).tail = k /\ longer(l).size = l.size + 1
  BY <1>4 DEF List
<1>5. t # None => y.next = k /\ y.post = h.sc[t].post /\ y.acc = h.sc[t].acc
  BY <1>3 DEF State, ConnectConn
<1> HIDE DEF y, longer
<1>6. /\ g[list] = longer(h[list])
      /\ \A other \in {"idle", "postS"} : other # list => g[other] = h[other]
  BY <1>1
<1>7. \A j \in Conn : /\ g.sc[j].post = h.sc[j].post /\ g.sc[j].acc = h.sc[j].acc
                      /\ g.sc[j].next = IF j = t THEN k ELSE h.sc[j].next
  <2> TAKE j \in Conn
  <2>1. CASE t = None
    <3>1. j # t
      BY <2>1, Constants
    <3> QED BY <1>1, <2>1, <3>1
  <2>2. CASE t # None
    BY <1>1, <1>3, <1>5, <2>2 DEF State
  <2> QED BY <2>1, <2>2
<1> QED BY <1>1, <1>2, <1>3, <1>4, <1>6, <1>7 DEF Pushed

\* ... and the connection is the last then.
LEMMA RunsPush ==
    ASSUME NEW h, NEW l, NEW w, Runs(h, l, w), NEW k \in Conn, ~Contains(w, k),
           h.sc[k].next = None, NEW g, NEW m,
           m.head = (IF l.tail = None THEN k ELSE l.head), m.tail = k, m.size = l.size + 1,
           \A j \in Conn : g.sc[j].next = IF j = l.tail THEN k ELSE h.sc[j].next
    PROVE  /\ Runs(g, m, Append(w, k))
           /\ \A j : Contains(Append(w, k), j) <=> Contains(w, j) \/ j = k
<1> DEFINE v == Append(w, k)
           n == Len(w)
<1>1. /\ w \in Seq(Conn) /\ n \in Nat
      /\ \A i, j \in 1..n : w[i] = w[j] => i = j
      /\ l.size = n
      /\ l.head = IF w = <<>> THEN None ELSE w[1]
      /\ l.tail = IF w = <<>> THEN None ELSE w[n]
      /\ \A i \in 1..n : h.sc[w[i]].next = IF i = n THEN None ELSE w[i + 1]
  BY DEF Runs
<1>2. /\ v \in Seq(Conn) /\ Len(v) = n + 1 /\ v[n + 1] = k
      /\ \A i \in 1..n : v[i] = w[i] /\ w[i] \in Conn
  BY <1>1
<1>3. \A i \in 1..n : w[i] # k
  BY DEF Contains
<1>4. \A i \in 1..Len(v) : i \in 1..n \/ i = n + 1
  BY <1>1, <1>2
<1>5. v # <<>> /\ (w = <<>> <=> n = 0)
  <2>1. n = 0 => w = <<>>
    BY <1>1
  <2>2. Len(<<>>) = 0
    OBVIOUS
  <2> HIDE DEF v
  <2> QED BY <1>1, <1>2, <2>1, <2>2
<1> HIDE DEF v, n
<1>6. \A i, j \in 1..Len(v) : v[i] = v[j] => i = j
  BY <1>1, <1>2, <1>3, <1>4
<1>7. m.head = v[1]
  <2>1. CASE n = 0
    BY <1>1, <1>2, <1>5, <2>1
  <2>2. CASE n # 0
    <3>1. 1 \in 1..n
      BY <1>1, <2>2
    <3>2. l.tail \in Conn
      <4>1. n \in 1..n
        BY <1>1, <2>2
      <4> QED BY <1>1, <1>2, <1>5, <2>2, <4>1
    <3> QED BY <1>1, <1>2, <1>5, <2>2, <3>1, <3>2, Constants
  <2> QED BY <2>1, <2>2
<1>8. ASSUME NEW i \in 1..Len(v)
      PROVE  g.sc[v[i]].next = IF i = Len(v) THEN None ELSE v[i + 1]
  <2>1. CASE i = n + 1
    <3>1. l.tail # k
      <4>1. n # 0 => n \in 1..n
        BY <1>1
      <4> QED BY <1>1, <1>3, <1>5, <4>1, Constants
    <3> QED BY <1>2, <2>1, <3>1
  <2>2. CASE i \in 1..n
    <3>1. /\ n # 0 /\ n \in 1..n /\ l.tail = w[n] /\ i # Len(v)
          /\ v[i] = w[i] /\ w[i] \in Conn
      BY <1>1, <1>2, <1>5, <2>2
    <3>2. CASE i = n
      BY <1>2, <3>1, <3>2
    <3>3. CASE i # n
      <4>1. i + 1 \in 1..n /\ w[i] # l.tail
        BY <1>1, <2>2, <3>1, <3>3
      <4>2. g.sc[v[i]].next = h.sc[w[i]].next
        BY <3>1, <4>1
      <4>3. h.sc[w[i]].next = v[i + 1]
        BY <1>1, <1>2, <2>2, <3>3, <4>1
      <4> QED BY ONLY <3>1, <4>2, <4>3
    <3> QED BY <3>2, <3>3
  <2> QED BY <1>4, <2>1, <2>2
<1>9. m.size = Len(v) /\ m.tail = v[Len(v)]
  BY <1>1, <1>2
<1>10. Runs(g, m, v)
  BY <1>2, <1>5, <1>6, <1>7, <1>8, <1>9 DEF Runs
<1>11. ASSUME NEW j PROVE Contains(v, j) <=> Contains(w, j) \/ j = k
  <2>1. Contains(w, j) <=> \E i \in 1..n : w[i] = j
    BY DEF Contains, n
  <2>2. Contains(v, j) <=> \E i \in 1..Len(v) : v[i] = j
    BY DEF Contains
  <2>3. n + 1 \in 1..Len(v) /\ \A i \in 1..n : i \in 1..Len(v)
    BY <1>1, <1>2
  <2> QED BY <1>2, <1>4, <2>1, <2>2, <2>3
<1> QED BY <1>10, <1>11 DEF v

\* The parts of what pop_front leaves ...
LEMMA PopFrontIs ==
    ASSUME NEW h, State(h), NEW list \in {"idle", "postS"}, NEW k \in Conn, k = h[list].head,
           NEW g, g = PopFront(h, list)
    PROVE  /\ State(g) /\ g.cc = h.cc /\ g.req = h.req /\ g.postA = h.postA
           /\ g[list].head = h.sc[k].next
           /\ g[list].tail = (IF h[list].size = 1 THEN None ELSE h[list].tail)
           /\ g[list].size = h[list].size - 1
           /\ \A other \in {"idle", "postS"} : other # list => g[other] = h[other]
           /\ \A j \in Conn : /\ SameConn(h.sc[j], g.sc[j])
                              /\ g.sc[j].post = h.sc[j].post /\ g.sc[j].acc = h.sc[j].acc
                              /\ g.sc[j].next = IF j = k THEN None ELSE h.sc[j].next
<1> DEFINE y == [h.sc[k] EXCEPT !.next = None]
           shorter(l) == [l EXCEPT !.head = h.sc[k].next,
                                   !.tail = IF l.size = 1 THEN None ELSE @, !.size = @ - 1]
<1>1. /\ g.cc = h.cc /\ g.req = h.req /\ g.postA = h.postA
      /\ g.sc = [h.sc EXCEPT ![k] = y]
      /\ g.idle = IF list = "idle" THEN shorter(h.idle) ELSE h.idle
      /\ g.postS = IF list = "postS" THEN shorter(h.postS) ELSE h.postS
  <2>1. CASE list = "idle"
    BY <2>1 DEF PopFront, State, Parts
  <2>2. CASE list = "postS"
    BY <2>2 DEF PopFront, State, Parts
  <2> QED BY <2>1, <2>2
<1>2. State(g) /\ \A j \in Conn : SameConn(h.sc[j], g.sc[j])
  BY PopFrontFrame DEF Frame, SameConns
<1>3. h[list] \in List
  BY DEF State
<1>4. ASSUME NEW l \in List
      PROVE  /\ shorter(l).head = h.sc[k].next
             /\ shorter(l).tail = (IF l.size = 1 THEN None ELSE l.tail)
             /\ shorter(l).size = l.size - 1
  BY <1>4 DEF List
<1>5. y.next = None /\ y.post = h.sc[k].post /\ y.acc = h.sc[k].acc
  BY DEF State, ConnectConn
<1> HIDE DEF y, shorter
<1>6. /\ g[list] = shorter(h[list])
      /\ \A other \in {"idle", "postS"} : other # list => g[other] = h[other]
  BY <1>1
<1>7. \A j \in Conn : /\ g.sc[j].post = h.sc[j].post /\ g.sc[j].acc = h.sc[j].acc
                      /\ g.sc[j].next = IF j = k THEN None ELSE h.sc[j].next
  BY <1>1, <1>5 DEF State
<1> QED BY <1>1, <1>2, <1>3, <1>4, <1>6, <1>7

\* ... and the connection is in the list no more.
LEMMA RunsPop ==
    ASSUME NEW h, NEW l, NEW w, Runs(h, l, w), NEW k \in Conn, k = l.head,
           NEW g, NEW m, m.head = h.sc[k].next,
           m.tail = (IF l.size = 1 THEN None ELSE l.tail), m.size = l.size - 1,
           \A j \in Conn : g.sc[j].next = IF j = k THEN None ELSE h.sc[j].next
    PROVE  /\ Runs(g, m, Tail(w)) /\ Contains(w, k)
           /\ \A j : Contains(Tail(w), j) <=> Contains(w, j) /\ j # k
<1> DEFINE v == Tail(w)
           n == Len(w)
<1>1. /\ w \in Seq(Conn) /\ n \in Nat
      /\ \A i, j \in 1..n : w[i] = w[j] => i = j
      /\ l.size = n
      /\ l.head = IF w = <<>> THEN None ELSE w[1]
      /\ l.tail = IF w = <<>> THEN None ELSE w[n]
      /\ \A i \in 1..n : h.sc[w[i]].next = IF i = n THEN None ELSE w[i + 1]
  BY DEF Runs
<1>2. w # <<>> /\ w[1] = k
  BY <1>1, Constants
<1>3. n >= 1
  BY <1>1, <1>2
<1>4. /\ v \in Seq(Conn) /\ Len(v) = n - 1
      /\ \A i \in 1..n - 1 : v[i] = w[i + 1] /\ i + 1 \in 1..n /\ i \in 1..n
      /\ \A i \in 1..n : w[i] \in Conn
  BY <1>1, <1>2
<1>5. 1 \in 1..n /\ n \in 1..n /\ \A i \in 1..n : i = 1 \/ i - 1 \in 1..n - 1
  BY <1>1, <1>3
<1>6. v = <<>> <=> n = 1
  <2>1. v = <<>> <=> Len(v) = 0
    <3> HIDE DEF v
    <3> QED BY <1>4, EmptySeq
  <2> HIDE DEF v
  <2> QED BY <1>1, <1>3, <1>4, <2>1
<1> HIDE DEF v, n
<1>7. \A i, j \in 1..Len(v) : v[i] = v[j] => i = j
  <2>1. ASSUME NEW i \in 1..n - 1, NEW j \in 1..n - 1, v[i] = v[j] PROVE i = j
    <3>1. w[i + 1] = w[j + 1] /\ i + 1 \in 1..n /\ j + 1 \in 1..n
      BY <1>4, <2>1
    <3>2. i + 1 = j + 1
      BY ONLY <1>1, <3>1
    <3> QED BY <3>2
  <2>2. Len(v) = n - 1
    BY <1>4
  <2> QED BY ONLY <2>1, <2>2
<1>8. m.head = IF v = <<>> THEN None ELSE v[1]
  <2>1. CASE n = 1
    BY <1>1, <1>2, <1>5, <1>6, <2>1
  <2>2. CASE n # 1
    <3>1. 1 \in 1..n - 1 /\ 1 + 1 = 2
      BY <1>1, <1>3, <2>2
    <3>2. h.sc[w[1]].next = w[2] /\ v[1] = w[2]
      BY <1>1, <1>4, <1>5, <2>2, <3>1
    <3> QED BY <1>2, <1>6, <2>2, <3>2
  <2> QED BY <2>1, <2>2
<1>9. m.size = Len(v) /\ m.tail = IF v = <<>> THEN None ELSE v[Len(v)]
  <2>1. CASE n = 1
    BY <1>1, <1>4, <1>6, <2>1
  <2>2. CASE n # 1
    <3>1. n - 1 \in 1..n - 1 /\ n - 1 + 1 = n
      BY <1>1, <1>3, <2>2
    <3>2. v[n - 1] = w[n]
      BY <1>4, <3>1
    <3> QED BY <1>1, <1>2, <1>4, <1>6, <2>2, <3>2
  <2> QED BY <2>1, <2>2
<1>10. ASSUME NEW i \in 1..Len(v)
       PROVE  g.sc[v[i]].next = IF i = Len(v) THEN None ELSE v[i + 1]
  <2>1. i \in 1..n - 1
    BY <1>4
  <2>2. v[i] = w[i + 1] /\ i + 1 \in 1..n /\ w[i + 1] \in Conn /\ i + 1 # 1
    BY <1>4, <2>1
  <2>3. w[i + 1] # k
    BY ONLY <1>1, <1>2, <1>5, <2>2
  <2>4. g.sc[v[i]].next = IF i + 1 = n THEN None ELSE w[i + 1 + 1]
    BY <1>1, <2>2, <2>3
  <2>5. CASE i = n - 1
    BY <1>1, <1>4, <2>4, <2>5
  <2>6. CASE i # n - 1
    <3>1. i + 1 \in 1..n - 1 /\ i + 1 # n
      BY <1>1, <2>1, <2>6
    <3>2. v[i + 1] = w[i + 1 + 1]
      BY <1>4, <3>1
    <3> QED BY <1>4, <2>4, <2>6, <3>1, <3>2
  <2> QED BY <2>5, <2>6
<1>11. Runs(g, m, v)
  BY <1>4, <1>7, <1>8, <1>9, <1>10 DEF Runs
<1>12. Contains(w, k)
  BY <1>2, <1>5 DEF Contains, n
<1>13. ASSUME NEW j PROVE Contains(v, j) <=> Contains(w, j) /\ j # k
  <2>1. Contains(w, j) <=> \E i \in 1..n : w[i] = j
    BY DEF Contains, n
  <2>2. Contains(v, j) <=> \E i \in 1..n - 1 : v[i] = j
    BY <1>4 DEF Contains
  <2>3. ASSUME NEW i \in 1..n - 1, v[i] = j PROVE Contains(w, j) /\ j # k
    <3>1. w[i + 1] = j /\ i + 1 \in 1..n /\ i + 1 # 1
      BY <1>4, <2>3
    <3>2. w[i + 1] # w[1]
      BY ONLY <1>1, <1>5, <3>1
    <3>3. j # k
      BY ONLY <1>2, <3>1, <3>2
    <3> QED BY ONLY <2>1, <3>1, <3>3
  <2>4. ASSUME NEW i \in 1..n, w[i] = j, j # k PROVE Contains(v, j)
    <3>1. i - 1 \in 1..n - 1
      BY <1>2, <1>5, <2>4
    <3>2. v[i - 1] = w[i - 1 + 1] /\ i - 1 + 1 = i
      BY <1>4, <3>1
    <3> QED BY <2>2, <2>4, <3>1, <3>2
  <2> QED BY <2>1, <2>2, <2>3, <2>4
<1> QED BY <1>11, <1>12, <1>13 DEF v


\* The lists are as they were if their links are.
LEMMA ListsSame ==
    ASSUME NEW h, NEW v, NEW w, InLists(h, v, w), NEW g, g.idle = h.idle, g.postS = h.postS,
           \A k \in Conn : /\ g.sc[k].next = h.sc[k].next /\ g.sc[k].post = h.sc[k].post
                           /\ Contains(v, k) => g.sc[k].acc = None /\ g.sc[k].link # "none"
    PROVE  InLists(g, v, w)
<1>1. Runs(g, g.idle, v) /\ Runs(g, g.postS, w)
  BY RunsSame DEF InLists
<1> QED BY <1>1 DEF InLists

\* The tail of a list is in it.
LEMMA TailIs ==
    ASSUME NEW h, NEW l, NEW w, Runs(h, l, w)
    PROVE  \A j \in Conn : j = l.tail => Contains(w, j)
<1>1. /\ w \in Seq(Conn) /\ l.tail = IF w = <<>> THEN None ELSE w[Len(w)]
  BY DEF Runs
<1>2. w # <<>> => Len(w) \in 1..Len(w)
  BY <1>1
<1> QED BY <1>1, <1>2, Constants DEF Contains

\* The first lemmas for each list.
LEMMA PushedEvents ==
    ASSUME NEW h, State(h), NEW k \in Conn, NEW g, g = PushBack(h, "postS", k)
    PROVE  /\ State(g) /\ g.cc = h.cc /\ g.req = h.req /\ g.postA = h.postA
           /\ g.postS.head = (IF h.postS.tail = None THEN k ELSE h.postS.head)
           /\ g.postS.tail = k /\ g.postS.size = h.postS.size + 1 /\ g.idle = h.idle
           /\ \A j \in Conn : /\ SameConn(h.sc[j], g.sc[j])
                              /\ g.sc[j].post = h.sc[j].post /\ g.sc[j].acc = h.sc[j].acc
                              /\ g.sc[j].next = IF j = h.postS.tail THEN k ELSE h.sc[j].next
<1>1. "postS" \in {"idle", "postS"} /\ "idle" \in {"idle", "postS"} /\ "idle" # "postS"
  OBVIOUS
<1>2. Pushed(h, "postS", k, g)
  BY <1>1, PushBackIs
<1> QED BY ONLY <1>1, <1>2 DEF Pushed

\* The same for the idle list.
LEMMA PushedIdle ==
    ASSUME NEW h, State(h), NEW k \in Conn, NEW g, g = PushBack(h, "idle", k)
    PROVE  /\ State(g) /\ g.cc = h.cc /\ g.req = h.req /\ g.postA = h.postA
           /\ g.idle.head = (IF h.idle.tail = None THEN k ELSE h.idle.head)
           /\ g.idle.tail = k /\ g.idle.size = h.idle.size + 1 /\ g.postS = h.postS
           /\ \A j \in Conn : /\ SameConn(h.sc[j], g.sc[j])
                              /\ g.sc[j].post = h.sc[j].post /\ g.sc[j].acc = h.sc[j].acc
                              /\ g.sc[j].next = IF j = h.idle.tail THEN k ELSE h.sc[j].next
<1>1. "postS" \in {"idle", "postS"} /\ "idle" \in {"idle", "postS"} /\ "idle" # "postS"
  OBVIOUS
<1>2. Pushed(h, "idle", k, g)
  BY <1>1, PushBackIs
<1> QED BY ONLY <1>1, <1>2 DEF Pushed

\* g is h with other events for connection k.
OnlyEvents(h, g, k, p) ==
    /\ State(g) /\ g.cc = h.cc /\ g.req = h.req /\ g.postA = h.postA
    /\ g.idle = h.idle /\ g.postS = h.postS
    /\ \A j \in Conn : /\ SameConn(h.sc[j], g.sc[j]) /\ g.sc[j].acc = h.sc[j].acc
                       /\ g.sc[j].next = h.sc[j].next
                       /\ g.sc[j].post = IF j = k THEN p ELSE h.sc[j].post

\* Setting the events of a connection changes nothing else.
LEMMA EventsSet ==
    ASSUME NEW h, State(h), NEW k \in Conn, NEW p \in SUBSET Event
    PROVE  OnlyEvents(h, [h EXCEPT !.sc[k].post = p], k, p)
<1> DEFINE g == [h EXCEPT !.sc[k].post = p]
<1> DEFINE y == [h.sc[k] EXCEPT !.post = p]
<1>1. /\ DOMAIN g = Parts /\ g.cc = h.cc /\ g.req = h.req /\ g.postA = h.postA
      /\ g.idle = h.idle /\ g.postS = h.postS /\ g.sc = [h.sc EXCEPT ![k] = y]
  BY DEF State, Parts
<1>2. /\ y \in ConnectConn /\ SameConn(h.sc[k], y) /\ y.acc = h.sc[k].acc
      /\ y.next = h.sc[k].next /\ y.post = p
  <2>1. h.sc[k] \in ConnectConn
    BY DEF State
  <2> QED BY <2>1 DEF ConnectConn, SameConn
<1> HIDE DEF y, g
<1>3. \A j \in Conn : g.sc[j] = IF j = k THEN y ELSE h.sc[j]
  BY <1>1 DEF State
<1>4. \A j \in Conn : SameConn(h.sc[j], h.sc[j])
  BY DEF SameConn, State
<1>5. g.sc \in [Conn -> ConnectConn]
  BY <1>1, <1>2 DEF State
<1>6. State(g)
  <2>1. State(h)
    OBVIOUS
  <2> QED BY ONLY <1>1, <1>5, <2>1 DEF State
<1>7. OnlyEvents(h, g, k, p)
  <2> HIDE DEF g
  <2> QED BY ONLY <1>1, <1>2, <1>3, <1>4, <1>6 DEF OnlyEvents
<1> QED BY <1>7 DEF g

\* Connection k has another event.
OnlyPosted(h, g, k, e) ==
    /\ State(g) /\ g.cc = h.cc /\ g.req = h.req /\ g.postA = h.postA
    /\ \A j \in Conn : /\ SameConn(h.sc[j], g.sc[j]) /\ g.sc[j].acc = h.sc[j].acc
                       /\ g.sc[j].post = IF j = k THEN h.sc[j].post \cup {e}
                                         ELSE h.sc[j].post

\* postEvent adds the event, and the connection to the list if it had none.
LEMMA PostSIs ==
    ASSUME NEW h, State(h), NEW v, NEW w, InLists(h, v, w), NEW k \in Conn, ~Contains(v, k),
           NEW e \in Event
    PROVE  /\ OnlyPosted(h, PostS(h, k, e), k, e)
           /\ \E u : InLists(PostS(h, k, e), v, u)
<1> DEFINE g == PostS(h, k, e)
<1> DEFINE m == IF h.sc[k].post = {} THEN PushBack(h, "postS", k) ELSE h
<1>1. g = [m EXCEPT !.sc[k].post = @ \cup {e}]
  BY DEF PostS
<1> HIDE DEF g
<1>2. ASSUME h.sc[k].post = {}
      PROVE  /\ State(m) /\ m.cc = h.cc /\ m.req = h.req /\ m.postA = h.postA
             /\ m.postS.head = (IF h.postS.tail = None THEN k ELSE h.postS.head)
             /\ m.postS.tail = k /\ m.postS.size = h.postS.size + 1
             /\ m.idle = h.idle
             /\ \A j \in Conn : /\ SameConn(h.sc[j], m.sc[j])
                                /\ m.sc[j].post = h.sc[j].post /\ m.sc[j].acc = h.sc[j].acc
                                /\ m.sc[j].next = IF j = h.postS.tail THEN k ELSE h.sc[j].next
  <2>1. m = PushBack(h, "postS", k)
    BY <1>2
  <2> HIDE DEF m
  <2> QED BY <2>1, PushedEvents
<1>3. /\ State(m) /\ m.cc = h.cc /\ m.req = h.req /\ m.postA = h.postA
      /\ \A j \in Conn : /\ SameConn(h.sc[j], m.sc[j])
                         /\ m.sc[j].post = h.sc[j].post /\ m.sc[j].acc = h.sc[j].acc
  <2>1. CASE h.sc[k].post = {}
    BY ONLY <1>2, <2>1
  <2>2. CASE h.sc[k].post # {}
    BY <2>2 DEF SameConn, State
  <2> QED BY <2>1, <2>2
<1>4. h.sc[k].post # {} => m = h
  OBVIOUS
<1> HIDE DEF m
<1>5. /\ State(g) /\ g.cc = m.cc /\ g.req = m.req /\ g.postA = m.postA
      /\ g.idle = m.idle /\ g.postS = m.postS
      /\ \A j \in Conn : /\ SameConn(m.sc[j], g.sc[j]) /\ g.sc[j].acc = m.sc[j].acc
                         /\ g.sc[j].next = m.sc[j].next
                         /\ g.sc[j].post = IF j = k THEN m.sc[j].post \cup {e}
                                           ELSE m.sc[j].post
  <2>1. m.sc[k].post \cup {e} \in SUBSET Event
    BY <1>3 DEF State, ConnectConn
  <2>2. g = [m EXCEPT !.sc[k].post = m.sc[k].post \cup {e}]
    BY <1>1
  <2>3. State(m) /\ k \in Conn
    BY <1>3
  <2>4. OnlyEvents(m, g, k, m.sc[k].post \cup {e})
    BY ONLY <2>1, <2>2, <2>3, EventsSet
  <2> QED BY ONLY <2>4 DEF OnlyEvents
<1>6. \A j \in Conn : SameConn(h.sc[j], g.sc[j])
  BY ONLY <1>3, <1>5 DEF SameConn
<1>7. \E u : InLists(g, v, u)
  <2>1. CASE h.sc[k].post = {}
    <3> DEFINE u == Append(w, k)
    <3>1. ~Contains(w, k) /\ h.sc[k].next = None
      BY <2>1 DEF InLists
    <3>2. Runs(h, h.idle, v) /\ Runs(h, h.postS, w)
      BY DEF InLists
    <3>0. /\ g.postS.head = (IF h.postS.tail = None THEN k ELSE h.postS.head)
          /\ g.postS.tail = k /\ g.postS.size = h.postS.size + 1 /\ g.idle = h.idle
          /\ \A j \in Conn : g.sc[j].next = IF j = h.postS.tail THEN k ELSE h.sc[j].next
      <4>1. /\ g.postS = m.postS /\ g.idle = m.idle
            /\ \A j \in Conn : g.sc[j].next = m.sc[j].next
        BY <1>5
      <4>2. /\ m.postS.head = (IF h.postS.tail = None THEN k ELSE h.postS.head)
            /\ m.postS.tail = k /\ m.postS.size = h.postS.size + 1 /\ m.idle = h.idle
            /\ \A j \in Conn : m.sc[j].next = IF j = h.postS.tail THEN k ELSE h.sc[j].next
        BY <1>2, <2>1
      <4> QED BY ONLY <4>1, <4>2
    <3>3. /\ Runs(g, g.postS, u)
          /\ \A j : Contains(u, j) <=> Contains(w, j) \/ j = k
      BY <3>0, <3>1, <3>2, RunsPush
    <3>4. \A j \in Conn : Contains(v, j) => h.sc[j].post = {} /\ ~Contains(w, j)
      BY DEF InLists
    <3>5. Runs(g, g.idle, v)
      <4>1. \A j \in Conn : Contains(v, j) => g.sc[j].next = h.sc[j].next
        BY <3>0, <3>2, <3>4, TailIs
      <4> QED BY <3>0, <3>2, <4>1, RunsSame
    <3>6. \A j \in Conn : Contains(u, j) <=> g.sc[j].post # {}
      <4>1. \A j \in Conn : g.sc[j].post = IF j = k THEN h.sc[j].post \cup {e} ELSE h.sc[j].post
        BY ONLY <1>3, <1>5
      <4>2. \A j \in Conn : Contains(w, j) <=> h.sc[j].post # {}
        BY DEF InLists
      <4>3. Contains(u, k) /\ h.sc[k].post \cup {e} # {}
        BY <3>3
      <4> QED BY ONLY <3>3, <4>1, <4>2, <4>3
    <3>7. ASSUME NEW j \in Conn, Contains(v, j)
          PROVE  /\ j \in Private /\ g.sc[j].acc = None /\ g.sc[j].post = {}
                 /\ g.sc[j].link # "none"
      <4>1. j # k
        BY <3>7
      <4>2. g.sc[j].post = h.sc[j].post /\ g.sc[j].acc = h.sc[j].acc
        BY ONLY <1>3, <1>5, <4>1
      <4>3. g.sc[j].link = h.sc[j].link
        BY <1>6 DEF SameConn
      <4> QED BY <3>7, <4>2, <4>3 DEF InLists
    <3>8. ASSUME NEW j \in Conn, ~Contains(v, j), ~Contains(u, j)
          PROVE  g.sc[j].next = None
      <4>1. ~Contains(w, j) /\ h.sc[j].next = None
        BY <3>3, <3>8 DEF InLists
      <4>2. j # h.postS.tail
        BY <3>2, <4>1, TailIs
      <4> QED BY <3>0, <4>1, <4>2
    <3> HIDE DEF u
    <3> QED BY <3>3, <3>5, <3>6, <3>7, <3>8 DEF InLists
  <2>2. CASE h.sc[k].post # {}
    <3>1. m = h
      BY <1>4, <2>2
    <3>2. \A j \in Conn : /\ g.sc[j].next = h.sc[j].next /\ g.sc[j].acc = h.sc[j].acc
                          /\ g.sc[j].post # {} <=> h.sc[j].post # {}
      BY ONLY <1>5, <2>2, <3>1
    <3>3. g.idle = h.idle /\ g.postS = h.postS
      BY ONLY <1>5, <3>1
    <3>4. Runs(g, g.idle, v) /\ Runs(g, g.postS, w)
      BY <3>2, <3>3, RunsSame DEF InLists
    <3>5. \A j \in Conn : g.sc[j].link = h.sc[j].link
      BY <1>6 DEF SameConn
    <3>6. \A j \in Conn : Contains(v, j) => g.sc[j].post = {}
      BY <3>2 DEF InLists
    <3>7. InLists(g, v, w)
      BY <3>2, <3>4, <3>5, <3>6 DEF InLists
    <3> QED BY <3>7
  <2> QED BY <2>1, <2>2
<1>8. OnlyPosted(h, g, k, e)
  BY <1>3, <1>5, <1>6 DEF OnlyPosted
<1> QED BY <1>7, <1>8 DEF g

\* A connection without events is put back, and has no client then.
LEMMA PutKeeps ==
    ASSUME NEW h, State(h), NEW v, NEW w, InLists(h, v, w), NEW k \in Private,
           ~Contains(v, k), h.sc[k].post = {}, h.sc[k].link # "none",
           NEW f, f = PutPrivate(h, k), NEW g, g.idle = f.idle, g.postS = f.postS,
           \A j \in Conn : /\ g.sc[j].next = f.sc[j].next /\ g.sc[j].post = f.sc[j].post
                           /\ g.sc[j].link = f.sc[j].link
                           /\ g.sc[j].acc = IF j = k THEN None ELSE f.sc[j].acc
    PROVE  \E u : InLists(g, u, w)
<1> DEFINE u == Append(v, k)
<1>1. k \in Conn /\ f = PushBack(h, "idle", k)
  BY Constants DEF PutPrivate
<1>2. /\ f.idle.head = (IF h.idle.tail = None THEN k ELSE h.idle.head)
      /\ f.idle.tail = k /\ f.idle.size = h.idle.size + 1
      /\ f.postS = h.postS
      /\ \A j \in Conn : /\ f.sc[j].link = h.sc[j].link
                         /\ f.sc[j].post = h.sc[j].post /\ f.sc[j].acc = h.sc[j].acc
                         /\ f.sc[j].next = IF j = h.idle.tail THEN k ELSE h.sc[j].next
  BY <1>1, PushedIdle DEF SameConn
<1>3. ~Contains(w, k) /\ h.sc[k].next = None
  BY <1>1 DEF InLists
<1>4. Runs(h, h.idle, v) /\ Runs(h, h.postS, w)
  BY DEF InLists
<1>5. /\ Runs(g, g.idle, u)
      /\ \A j : Contains(u, j) <=> Contains(v, j) \/ j = k
  BY <1>1, <1>2, <1>3, <1>4, RunsPush
<1>6. \A j \in Conn : Contains(v, j) => ~Contains(w, j)
  BY DEF InLists
<1>7. Runs(g, g.postS, w)
  <2>1. \A j \in Conn : Contains(w, j) => g.sc[j].next = h.sc[j].next
    BY <1>2, <1>4, <1>6, TailIs
  <2> QED BY <1>2, <1>4, <2>1, RunsSame
<1>8. \A j \in Conn : Contains(w, j) <=> g.sc[j].post # {}
  BY <1>2 DEF InLists
<1>9. ASSUME NEW j \in Conn, Contains(u, j)
      PROVE  /\ j \in Private /\ g.sc[j].acc = None /\ g.sc[j].post = {}
             /\ g.sc[j].link # "none"
  <2>1. CASE j = k
    BY <1>2, <2>1
  <2>2. CASE j # k
    BY <1>2, <1>5, <1>9, <2>2 DEF InLists
  <2> QED BY <2>1, <2>2
<1>10. ASSUME NEW j \in Conn, ~Contains(u, j), ~Contains(w, j)
       PROVE  g.sc[j].next = None
  <2>1. ~Contains(v, j) /\ h.sc[j].next = None
    BY <1>5, <1>10 DEF InLists
  <2>2. j # h.idle.tail
    BY <1>4, <2>1, TailIs
  <2> QED BY <1>2, <2>1, <2>2
<1> HIDE DEF u
<1> QED BY <1>5, <1>7, <1>8, <1>9, <1>10 DEF InLists

\* The first connection is taken from the idle ones ...
LEMMA TakeKeeps ==
    ASSUME NEW h, State(h), NEW v, NEW w, InLists(h, v, w), NEW k \in Conn, k = h.idle.head,
           NEW g, g = PopFront(h, "idle")
    PROVE  /\ Contains(v, k) /\ InLists(g, Tail(v), w) /\ ~Contains(Tail(v), k)
<1> DEFINE u == Tail(v)
<1>1. Runs(h, h.idle, v) /\ Runs(h, h.postS, w)
  BY DEF InLists
<1>2. /\ g.idle.head = h.sc[k].next
      /\ g.idle.tail = (IF h.idle.size = 1 THEN None ELSE h.idle.tail)
      /\ g.idle.size = h.idle.size - 1 /\ g.postS = h.postS
      /\ \A j \in Conn : /\ g.sc[j].link = h.sc[j].link
                         /\ g.sc[j].post = h.sc[j].post /\ g.sc[j].acc = h.sc[j].acc
                         /\ g.sc[j].next = IF j = k THEN None ELSE h.sc[j].next
  BY PopFrontIs DEF SameConn
<1>3. /\ Runs(g, g.idle, u) /\ Contains(v, k)
      /\ \A j : Contains(u, j) <=> Contains(v, j) /\ j # k
  BY <1>1, <1>2, RunsPop
<1>4. ~Contains(w, k)
  BY <1>3 DEF InLists
<1>5. Runs(g, g.postS, w)
  BY <1>1, <1>2, <1>4, RunsSame
<1> HIDE DEF u
<1>6. InLists(g, u, w)
  BY <1>2, <1>3, <1>5 DEF InLists
<1> QED BY <1>3, <1>6 DEF u

\* Handler h when connection k was taken out of the list of those with events.
Popped(h, k) == [PopFront(h, "postS") EXCEPT !.sc[k].post = {}]

\* Connection k has no events any more: g is what h has become.
Taken(h, g, k, v, w) ==
    /\ State(g) /\ g.cc = h.cc /\ g.req = h.req
    /\ \A j \in Conn : /\ SameConn(h.sc[j], g.sc[j]) /\ g.sc[j].acc = h.sc[j].acc
                       /\ g.sc[j].post = IF j = k THEN {} ELSE h.sc[j].post
    /\ ~Contains(v, k) /\ h.sc[k].post # {} /\ InLists(g, v, Tail(w))

\* ... or from those with events, with its events.
LEMMA TakeEventsKeeps ==
    ASSUME NEW h, State(h), NEW v, NEW w, InLists(h, v, w), NEW k \in Conn, k = h.postS.head
    PROVE  Taken(h, Popped(h, k), k, v, w)
<1> DEFINE g == Popped(h, k)
           u == Tail(w)
           f == PopFront(h, "postS")
<1>1. Runs(h, h.idle, v) /\ Runs(h, h.postS, w)
  BY DEF InLists
<1>2. /\ State(f) /\ f.cc = h.cc /\ f.req = h.req
      /\ f.postS.head = h.sc[k].next
      /\ f.postS.tail = (IF h.postS.size = 1 THEN None ELSE h.postS.tail)
      /\ f.postS.size = h.postS.size - 1 /\ f.idle = h.idle
      /\ \A j \in Conn : /\ SameConn(h.sc[j], f.sc[j])
                         /\ f.sc[j].post = h.sc[j].post /\ f.sc[j].acc = h.sc[j].acc
                         /\ f.sc[j].next = IF j = k THEN None ELSE h.sc[j].next
  BY PopFrontIs
<1> HIDE DEF f, g
<1>3. /\ State(g) /\ g.cc = f.cc /\ g.req = f.req /\ g.idle = f.idle /\ g.postS = f.postS
      /\ \A j \in Conn : /\ SameConn(f.sc[j], g.sc[j]) /\ g.sc[j].acc = f.sc[j].acc
                         /\ g.sc[j].next = f.sc[j].next
                         /\ g.sc[j].post = IF j = k THEN {} ELSE f.sc[j].post
  <2>1. {} \in SUBSET Event /\ g = [f EXCEPT !.sc[k].post = {}]
    BY DEF f, g, Popped
  <2>2. State(f) /\ k \in Conn
    BY <1>2
  <2>3. OnlyEvents(f, g, k, {})
    BY ONLY <2>1, <2>2, EventsSet
  <2> QED BY ONLY <2>3 DEF OnlyEvents
<1>4. \A j \in Conn : SameConn(h.sc[j], g.sc[j])
  BY ONLY <1>2, <1>3 DEF SameConn
<1>11. /\ g.postS.head = h.sc[k].next
       /\ g.postS.tail = (IF h.postS.size = 1 THEN None ELSE h.postS.tail)
       /\ g.postS.size = h.postS.size - 1 /\ g.idle = h.idle
       /\ \A j \in Conn : /\ g.sc[j].acc = h.sc[j].acc
                          /\ g.sc[j].post = IF j = k THEN {} ELSE h.sc[j].post
                          /\ g.sc[j].next = IF j = k THEN None ELSE h.sc[j].next
  BY ONLY <1>2, <1>3
<1>13. k \in Conn /\ k = h.postS.head
  OBVIOUS
<1>5. /\ Runs(g, g.postS, u) /\ Contains(w, k)
      /\ \A j : Contains(u, j) <=> Contains(w, j) /\ j # k
  BY ONLY <1>1, <1>11, <1>13, RunsPop
<1>6. ~Contains(v, k) /\ h.sc[k].post # {}
  BY <1>5 DEF InLists
<1>7. Runs(g, g.idle, v)
  <2>1. \A j \in Conn : Contains(v, j) => g.sc[j].next = h.sc[j].next
    BY <1>6, <1>11
  <2>2. g.idle = h.idle
    BY <1>11
  <2> QED BY ONLY <1>1, <2>1, <2>2, RunsSame
<1> HIDE DEF u
<1>8. \A j \in Conn : Contains(u, j) <=> g.sc[j].post # {}
  BY <1>5, <1>11 DEF InLists
<1>10. \A j \in Conn : g.sc[j].link = h.sc[j].link
  BY <1>4 DEF SameConn
<1>9. InLists(g, v, u)
  <2>1. \A j \in Conn : Contains(v, j) => g.sc[j].post = {} /\ g.sc[j].acc = None
    BY <1>11 DEF InLists
  <2>2. \A j \in Conn : ~Contains(v, j) /\ ~Contains(u, j) => g.sc[j].next = None
    BY <1>5, <1>11 DEF InLists
  <2>3. \A j \in Conn : Contains(v, j) => j \in Private /\ g.sc[j].link # "none"
    BY <1>10 DEF InLists
  <2> QED BY <1>5, <1>7, <1>8, <2>1, <2>2, <2>3 DEF InLists
<1>12. State(g) /\ g.cc = h.cc /\ g.req = h.req
  BY ONLY <1>2, <1>3
<1> QED BY <1>4, <1>6, <1>9, <1>11, <1>12 DEF u, g, Taken

-----------------------------------------------------------------------------
(* What handleResponse does.                                               *)

\* Only events of clients have changed.
OnlyClientEvents(h, g) ==
    /\ State(g) /\ g.sc = h.sc /\ g.idle = h.idle /\ g.req = h.req /\ g.postS = h.postS
    /\ \A d \in Client : SameAs(h.cc[d], g.cc[d])

\* addPostEvent changes the events of the client only, and the list.
LEMMA PostAIs ==
    ASSUME NEW h, State(h), NEW c \in Client, NEW e \in Event
    PROVE  OnlyClientEvents(h, PostA(h, c, e))
<1> DEFINE g == PostA(h, c, e)
           y == [h.cc[c] EXCEPT !.post = @ \cup {e}]
<1>1. State(g)
  BY PostAFrame DEF Frame
<1>2. /\ g.sc = h.sc /\ g.idle = h.idle /\ g.req = h.req /\ g.postS = h.postS
      /\ g.cc = [h.cc EXCEPT ![c] = y]
  BY DEF PostA, State, Parts
<1>3. SameAs(h.cc[c], y)
  <2>1. h.cc[c] \in AcceptConn
    BY DEF State
  <2> QED BY <2>1 DEF AcceptConn, SameAs, Apart, SameCounters, HasCounters
<1> HIDE DEF g, y
<1>4. \A d \in Client : SameAs(h.cc[d], h.cc[d])
  BY DEF SameAs, Apart, SameCounters, HasCounters
<1>5. \A d \in Client : g.cc[d] = IF d = c THEN y ELSE h.cc[d]
  BY <1>2 DEF State
<1>6. \A d \in Client : SameAs(h.cc[d], g.cc[d])
  BY <1>3, <1>4, <1>5
<1>7. OnlyClientEvents(h, g)
  BY <1>1, <1>2, <1>6 DEF OnlyClientEvents
<1> QED BY <1>7 DEF g

\* Clients that are the same are answered the same.
LEMMA RespondedSame ==
    ASSUME NEW x \in AcceptConn, NEW y \in AcceptConn, SameAs(x, y),
           NEW cmd, NEW res, NEW direct \in BOOLEAN
    PROVE  SameAs(Responded(x, cmd, res, direct), Responded(y, cmd, res, direct))
<1> DEFINE u == Unblocked(x, cmd)
           v == Unblocked(y, cmd)
           a == Responded(x, cmd, res, direct)
           b == Responded(y, cmd, res, direct)
<1>1. /\ u \in AcceptConn /\ Apart(x, u) /\ SameCounters(x, u)
      /\ u.block = (x.block /\ cmd \notin Blocking)
  BY ChangesAre, UnblockedIs
<1>2. /\ v \in AcceptConn /\ Apart(y, v) /\ SameCounters(y, v)
      /\ v.block = (y.block /\ cmd \notin Blocking)
  BY ChangesAre, UnblockedIs
<1>3. /\ cmd = "watch" => a = IF res = "ok" THEN [u EXCEPT !.watch = @ + 1]
                              ELSE [u EXCEPT !.pendWatch = Minus(@, 1)]
      /\ cmd = "multi" => a = IF res = "ok" THEN [u EXCEPT !.multi = @ + 1]
                              ELSE [u EXCEPT !.pendMulti = Minus(@, 1)]
      /\ cmd = "unwatch" => a = IF res = "ok" THEN Unwatch(u) ELSE u
      /\ cmd \in {"exec", "discard"} =>
           a = IF u.multi > 0 /\ ~direct THEN DecrMulti(Unwatch(u)) ELSE u
      /\ cmd = "subscribe" => a = IF direct THEN [u EXCEPT !.pendSub = Minus(@, 1)] ELSE u
      /\ cmd \notin {"watch", "multi", "unwatch", "exec", "discard", "subscribe"} => a = u
  BY RespondedCases
<1>4. /\ cmd = "watch" => b = IF res = "ok" THEN [v EXCEPT !.watch = @ + 1]
                              ELSE [v EXCEPT !.pendWatch = Minus(@, 1)]
      /\ cmd = "multi" => b = IF res = "ok" THEN [v EXCEPT !.multi = @ + 1]
                              ELSE [v EXCEPT !.pendMulti = Minus(@, 1)]
      /\ cmd = "unwatch" => b = IF res = "ok" THEN Unwatch(v) ELSE v
      /\ cmd \in {"exec", "discard"} =>
           b = IF v.multi > 0 /\ ~direct THEN DecrMulti(Unwatch(v)) ELSE v
      /\ cmd = "subscribe" => b = IF direct THEN [v EXCEPT !.pendSub = Minus(@, 1)] ELSE v
      /\ cmd \notin {"watch", "multi", "unwatch", "exec", "discard", "subscribe"} => b = v
  BY RespondedCases
<1> HIDE DEF u, v, a, b
<1>5. SameAs(u, v)
  BY <1>1, <1>2 DEF SameAs, Apart, SameCounters, HasCounters
<1>6. SameAs(a, b)
  <2>1. CASE cmd = "watch"
    BY <1>1, <1>2, <1>3, <1>4, <1>5, <2>1, ChangesAre DEF SameAs, Apart, SameCounters, HasCounters
  <2>2. CASE cmd = "multi"
    BY <1>1, <1>2, <1>3, <1>4, <1>5, <2>2, ChangesAre DEF SameAs, Apart, SameCounters, HasCounters
  <2>3. CASE cmd = "unwatch"
    BY <1>1, <1>2, <1>3, <1>4, <1>5, <2>3, ChangesAre DEF SameAs, Apart, SameCounters, HasCounters
  <2>4. CASE cmd \in {"exec", "discard"}
    <3>1. \/ a = u /\ b = v
          \/ a = DecrMulti(Unwatch(u)) /\ b = DecrMulti(Unwatch(v))
      BY ONLY <1>3, <1>4, <1>5, <2>4 DEF SameAs, SameCounters, HasCounters
    <3>2. CASE a = u /\ b = v
      BY ONLY <1>5, <3>2
    <3>3. CASE a = DecrMulti(Unwatch(u)) /\ b = DecrMulti(Unwatch(v))
      <4> DEFINE i == Unwatch(u)
                 j == Unwatch(v)
      <4>1. i \in AcceptConn /\ j \in AcceptConn
        BY <1>1, <1>2, CountersChange DEF Recounted, SameClient
      <4>2. SameAs(i, j)
        BY <1>1, <1>2, <1>5, ChangesAre DEF SameAs, Apart, SameCounters, HasCounters
      <4> HIDE DEF i, j
      <4>3. SameAs(DecrMulti(i), DecrMulti(j))
        BY <4>1, <4>2, ChangesAre DEF SameAs, Apart, SameCounters, HasCounters
      <4> QED BY <3>3, <4>3 DEF i, j
    <3> QED BY <3>1, <3>2, <3>3
  <2>5. CASE cmd = "subscribe"
    BY <1>1, <1>2, <1>3, <1>4, <1>5, <2>5, ChangesAre DEF SameAs, Apart, SameCounters, HasCounters
  <2>6. CASE cmd \notin {"watch", "multi", "unwatch", "exec", "discard", "subscribe"}
    BY <1>3, <1>4, <1>5, <2>6
  <2> QED BY <2>1, <2>2, <2>3, <2>4, <2>5, <2>6
<1> QED BY <1>6 DEF a, b

\* SameAs is transitive.
LEMMA SameAsTrans ==
    ASSUME NEW x, NEW y, NEW z, SameAs(x, y), SameAs(y, z)
    PROVE  SameAs(x, z)
  BY DEF SameAs, Apart, SameCounters, HasCounters

\* Request r is answered: its client's counters have changed.
Answered(h, e, r, res, direct) ==
    /\ State(e) /\ e.sc = h.sc /\ e.idle = h.idle /\ e.postS = h.postS
    /\ e.req = [h.req EXCEPT ![r].res = res]
    /\ \A d \in Client : d # r[1] => SameAs(h.cc[d], e.cc[d])
    /\ SameAs(Responded(h.cc[r[1]], h.req[r].cmd, res, direct), e.cc[r[1]])

\* Connection k is put back by the answer to a client with nothing open.
PutBack(e, c, k) ==
    IF k \in Private /\ ~Holds(e.cc[c]) THEN Detach(PutPrivate(e, k), c, k) ELSE e

\* handleResponse answers the request of a client that heeds it, and puts the
\* connection back; it does nothing for another.
LEMMA ResponseIs ==
    ASSUME NEW h, State(h), NEW k \in Conn \cup {None}, NEW r \in Req, NEW res \in Response
    PROVE  /\ ~Heeded(h, r) => HandleResponse(h, k, r, res) = h
           /\ Heeded(h, r) => \E e : /\ Answered(h, e, r, res, k = None)
                                     /\ HandleResponse(h, k, r, res) = PutBack(e, r[1], k)
<1> DEFINE c == r[1]
           x == h.cc[c]
           cmd == h.req[r].cmd
           direct == k = None
           answered == [h EXCEPT !.req[r].res = res]
           posted == IF answered.req[Head(x.requests)].res # "none"
                     THEN PostA(answered, c, "Write") ELSE answered
           counted == [posted EXCEPT !.cc[c] = Responded(@, cmd, res, direct)]
           ended == IF cmd \in {"exec", "discard"} /\ x.multi > 0 /\ k = None
                    THEN PostA(counted, c, "Error") ELSE counted
<1>1. HandleResponse(h, k, r, res) = IF ~Heeded(h, r) THEN h ELSE PutBack(ended, c, k)
  <2>1. ~Heeded(h, r) => HandleResponse(h, k, r, res) = h
    BY DEF HandleResponse, Heeded
  <2>2. Heeded(h, r) => HandleResponse(h, k, r, res) = PutBack(ended, c, k)
    BY DEF HandleResponse, Heeded, PutBack
  <2> QED BY <2>1, <2>2
<1>2. c \in Client /\ direct \in BOOLEAN /\ "Write" \in Event /\ "Error" \in Event
  BY Constants DEF Event
<1>3. /\ State(answered) /\ answered.cc = h.cc /\ answered.sc = h.sc /\ answered.idle = h.idle
      /\ answered.postS = h.postS /\ answered.req = [h.req EXCEPT ![r].res = res]
  <2> DEFINE y == [h.req[r] EXCEPT !.res = res]
  <2>1. y \in Request
    BY DEF State, Request, Response
  <2>2. /\ DOMAIN answered = Parts /\ answered.cc = h.cc /\ answered.sc = h.sc
        /\ answered.idle = h.idle /\ answered.postA = h.postA /\ answered.postS = h.postS
        /\ answered.req = [h.req EXCEPT ![r] = y]
    BY DEF State, Parts
  <2> HIDE DEF y, answered
  <2>3. answered.req \in [Req -> Request]
    BY <2>1, <2>2 DEF State
  <2>4. State(answered)
    BY <2>2, <2>3 DEF State
  <2>5. [h.req EXCEPT ![r] = y] = [h.req EXCEPT ![r].res = res]
    BY DEF y
  <2> QED BY <2>2, <2>4, <2>5
<1> HIDE DEF answered
<1>4. OnlyClientEvents(answered, posted)
  <2>1. OnlyClientEvents(answered, PostA(answered, c, "Write"))
    BY <1>2, <1>3, PostAIs
  <2>2. OnlyClientEvents(answered, answered)
    BY <1>3 DEF OnlyClientEvents, SameAs, Apart, SameCounters, HasCounters
  <2> QED BY <2>1, <2>2
<1> HIDE DEF posted
<1>5. /\ State(counted) /\ counted.sc = posted.sc /\ counted.idle = posted.idle
      /\ counted.postS = posted.postS /\ counted.req = posted.req
      /\ \A d \in Client : d # c => counted.cc[d] = posted.cc[d]
      /\ counted.cc[c] = Responded(posted.cc[c], cmd, res, direct)
  <2> DEFINE y == Responded(posted.cc[c], cmd, res, direct)
  <2>0. State(posted)
    BY <1>4 DEF OnlyClientEvents
  <2>1. posted.cc[c] \in AcceptConn
    BY <1>2, <2>0 DEF State
  <2>2. y \in AcceptConn
    BY <2>1, RespondedIs DEF SameClient
  <2>3. /\ DOMAIN counted = Parts /\ counted.sc = posted.sc /\ counted.idle = posted.idle
        /\ counted.postS = posted.postS /\ counted.req = posted.req
        /\ counted.postA = posted.postA /\ counted.cc = [posted.cc EXCEPT ![c] = y]
    BY <2>0 DEF State, Parts
  <2> HIDE DEF y, counted
  <2>4. counted.cc \in [Client -> AcceptConn]
    BY ONLY <1>2, <2>0, <2>2, <2>3 DEF State
  <2>5. State(counted)
    BY ONLY <2>0, <2>3, <2>4 DEF State
  <2>6. /\ \A d \in Client : d # c => counted.cc[d] = posted.cc[d]
        /\ counted.cc[c] = y
    BY ONLY <1>2, <2>0, <2>3 DEF State
  <2> QED BY <2>3, <2>5, <2>6 DEF y
<1> HIDE DEF counted
<1>6. OnlyClientEvents(counted, ended)
  <2>1. OnlyClientEvents(counted, PostA(counted, c, "Error"))
    BY <1>2, <1>5, PostAIs
  <2>2. OnlyClientEvents(counted, counted)
    BY <1>5 DEF OnlyClientEvents, SameAs, Apart, SameCounters, HasCounters
  <2> QED BY <2>1, <2>2
<1> HIDE DEF ended
<1>7. \A d \in Client : d # c => SameAs(h.cc[d], ended.cc[d])
  <2> SUFFICES ASSUME NEW d \in Client, d # c PROVE SameAs(h.cc[d], ended.cc[d])
    OBVIOUS
  <2>1. SameAs(h.cc[d], posted.cc[d])
    BY <1>3, <1>4 DEF OnlyClientEvents
  <2>2. SameAs(posted.cc[d], ended.cc[d])
    BY <1>5, <1>6 DEF OnlyClientEvents
  <2> QED BY <2>1, <2>2, SameAsTrans
<1>8. SameAs(Responded(x, cmd, res, direct), ended.cc[c])
  <2>1. SameAs(x, posted.cc[c])
    BY <1>2, <1>3, <1>4 DEF OnlyClientEvents
  <2>2. x \in AcceptConn /\ posted.cc[c] \in AcceptConn
    BY <1>2, <1>4 DEF OnlyClientEvents, State
  <2>3. SameAs(Responded(x, cmd, res, direct), counted.cc[c])
    <3>1. SameAs(Responded(x, cmd, res, direct), Responded(posted.cc[c], cmd, res, direct))
      BY ONLY <1>2, <2>1, <2>2, RespondedSame
    <3> QED BY <1>5, <3>1
  <2>4. SameAs(counted.cc[c], ended.cc[c])
    BY <1>2, <1>6 DEF OnlyClientEvents
  <2> QED BY <2>3, <2>4, SameAsTrans
<1>9. Answered(h, ended, r, res, direct)
  <2>1. /\ State(ended) /\ ended.sc = h.sc /\ ended.idle = h.idle /\ ended.postS = h.postS
        /\ ended.req = [h.req EXCEPT ![r].res = res]
    BY <1>3, <1>4, <1>5, <1>6 DEF OnlyClientEvents
  <2> QED BY <1>7, <1>8, <2>1 DEF Answered
<1> QED BY <1>1, <1>9

-----------------------------------------------------------------------------
(* Getting a connection.                                                   *)

\* Requests are on a connection as before if it has the same.
LEMMA QueuesSame ==
    ASSUME NEW h, NEW g,
           \A k \in Conn : g.sc[k].send = h.sc[k].send /\ g.sc[k].sent = h.sc[k].sent
    PROVE  QueuesOf(g) = QueuesOf(h)
  BY DEF QueuesOf

\* The same of Fit, when queues and events stay as they are.
LEMMA LikeFits ==
    ASSUME NEW h, NEW s, Fit(h, s), NEW g, Like(h, g, QueuesOf(h)),
           \A k \in Conn : /\ g.sc[k].send = h.sc[k].send /\ g.sc[k].sent = h.sc[k].sent
                           /\ g.sc[k].post = h.sc[k].post
    PROVE  Fit(g, s)
<1>1. QueuesOf(g) = QueuesOf(h)
  BY QueuesSame
<1>2. Core(g, s, QueuesOf(h)) /\ \A c \in Client : Attending(g, QueuesOf(h), c)
  BY LikeKeeps DEF Fit
<1>3. Posted(g)
  <2>1. \A k \in Conn : /\ g.sc[k].link = h.sc[k].link /\ g.sc[k].good = h.sc[k].good
                        /\ g.sc[k].acc = h.sc[k].acc
    BY DEF Like
  <2> QED BY <2>1 DEF Fit, Posted, Open
<1> QED BY <1>1, <1>2, <1>3 DEF Fit

\* Connection k is open now.
Opened(h, k) == [h EXCEPT !.sc[k].link = "open", !.sc[k].good = TRUE]

\* Where connections do not fail, what is got is ...
LEMMA GetCases ==
    ASSUME ~ServerFails, NEW h, NEW c, NEW cmd, NEW e \in GetConnection(h, c, cmd)
    PROVE  \/ h.cc[c].conn # None /\ e = Got(h, h.cc[c].conn)
           \/ /\ h.cc[c].conn = None /\ cmd \notin RequirePrivate
              /\ e = Got(IF Open(h.sc[Shared]) THEN h ELSE Opened(h, Shared), Shared)
           \/ /\ h.cc[c].conn = None /\ cmd \in RequirePrivate /\ h.idle.head = None
              /\ \E k \in Private : h.sc[k].link = "none" /\ e = Got(Opened(h, k), k)
           \/ /\ h.cc[c].conn = None /\ cmd \in RequirePrivate /\ h.idle.head # None
              /\ e = Got(IF Open(h.sc[h.idle.head]) THEN PopFront(h, "idle")
                         ELSE Opened(PopFront(h, "idle"), h.idle.head), h.idle.head)
<1>1. Fail = {FALSE}
  BY DEF Fail
<1>2. \A g : Unavailable(g) = {}
  BY <1>1 DEF Unavailable
<1>3. \A S : Checked(S) = S
  BY <1>2 DEF Checked
<1>4. \A g, k : OpenConn(g, k) = {Got(Opened(g, k), k)}
  BY DEF OpenConn, Opened
<1>5. \A g, k : Got(g, k).conn = k
  BY DEF Got
<1>6. \A g, k : k # None => OpenPrivate(g, k) = {Got(Opened(g, k), k)}
  BY <1>4, <1>5 DEF OpenPrivate
<1>7. CASE h.cc[c].conn # None
  BY <1>7 DEF GetConnection
<1>8. CASE h.cc[c].conn = None /\ cmd \notin RequirePrivate
  <2>1. e \in GetShare(h)
    BY <1>8 DEF GetConnection
  <2>2. CASE Open(h.sc[Shared])
    BY <1>3, <1>8, <2>1, <2>2 DEF GetShare
  <2>3. CASE ~Open(h.sc[Shared])
    <3>1. e \in OpenConn(h, Shared)
      BY <1>2, <1>3, <2>1, <2>3 DEF GetShare
    <3> QED BY <1>4, <1>8, <2>3, <3>1
  <2> QED BY <2>2, <2>3
<1>9. CASE h.cc[c].conn = None /\ cmd \in RequirePrivate
  <2> DEFINE k == h.idle.head
  <2>1. e \in GetPrivate(h)
    BY <1>9 DEF GetConnection
  <2>2. CASE k = None
    <3>1. e \in UNION {OpenPrivate(h, p) : p \in {p \in Private : h.sc[p].link = "none"}}
      BY <1>2, <1>3, <2>1, <2>2 DEF GetPrivate
    <3>2. PICK p \in Private : h.sc[p].link = "none" /\ e \in OpenPrivate(h, p)
      BY <3>1
    <3>3. p # None
      BY Constants
    <3> QED BY <1>6, <1>9, <2>2, <3>2, <3>3
  <2>3. CASE k # None /\ Open(h.sc[k])
    <3>1. e \in {Got(PopFront(h, "idle"), k)}
      BY <1>3, <2>1, <2>3 DEF GetPrivate
    <3> QED BY <1>9, <2>3, <3>1
  <2>4. CASE k # None /\ ~Open(h.sc[k])
    <3>1. e \in OpenPrivate(PopFront(h, "idle"), k)
      BY <1>2, <1>3, <2>1, <2>4 DEF GetPrivate
    <3> QED BY <1>6, <1>9, <2>4, <3>1
  <2> QED BY <2>2, <2>3, <2>4
<1> QED BY <1>7, <1>8, <1>9

\* Connection k is open, and otherwise what it was.
OnlyOpened(h, g, k) ==
    /\ State(g) /\ g.cc = h.cc /\ g.req = h.req /\ g.idle = h.idle /\ g.postS = h.postS
    /\ g.sc[k].link = "open" /\ g.sc[k].good
    /\ \A j \in Conn : /\ g.sc[j].send = h.sc[j].send /\ g.sc[j].sent = h.sc[j].sent
                       /\ g.sc[j].post = h.sc[j].post /\ g.sc[j].acc = h.sc[j].acc
                       /\ g.sc[j].next = h.sc[j].next
                       /\ j # k => g.sc[j].link = h.sc[j].link /\ g.sc[j].good = h.sc[j].good

\* Opening a connection changes nothing else.
LEMMA OpenedIs ==
    ASSUME NEW h, State(h), NEW k \in Conn
    PROVE  OnlyOpened(h, Opened(h, k), k)
<1> DEFINE g == Opened(h, k)
           y == [[h.sc[k] EXCEPT !.link = "open"] EXCEPT !.good = TRUE]
<1>1. /\ DOMAIN g = Parts /\ g.cc = h.cc /\ g.req = h.req /\ g.postA = h.postA
      /\ g.idle = h.idle /\ g.postS = h.postS
      /\ \A j \in Conn : g.sc[j] = IF j = k THEN y ELSE h.sc[j]
      /\ DOMAIN g.sc = Conn /\ g.sc = [j \in Conn |-> g.sc[j]]
  BY DEF Opened, State, Parts
<1>2. /\ y \in ConnectConn /\ y.link = "open" /\ y.good /\ y.send = h.sc[k].send
      /\ y.sent = h.sc[k].sent /\ y.post = h.sc[k].post /\ y.acc = h.sc[k].acc
      /\ y.next = h.sc[k].next
  <2>1. h.sc[k] \in ConnectConn
    BY DEF State
  <2> QED BY <2>1 DEF ConnectConn
<1> HIDE DEF g, y
<1>3. g.sc \in [Conn -> ConnectConn]
  <2>1. \A j \in Conn : g.sc[j] \in ConnectConn
    BY <1>1, <1>2 DEF State
  <2> QED BY ONLY <1>1, <2>1
<1>4. State(g)
  BY <1>1, <1>3 DEF State
<1>5. OnlyOpened(h, g, k)
  BY <1>1, <1>2, <1>4 DEF OnlyOpened
<1> QED BY <1>5 DEF g

\* A connection that was not open has nothing on it.
LEMMA OpenKeeps ==
    ASSUME NEW h, NEW s, Fit(h, s), GoodOpen(h), NEW k \in Conn, ~Open(h.sc[k]),
           NEW g, OnlyOpened(h, g, k)
    PROVE  /\ Fit(g, s) /\ g.sc[k].acc = None /\ \A t \in Req : ~On(QueuesOf(g), k, t)
           /\ \A v, w : InLists(h, v, w) => InLists(g, v, w)
<1> DEFINE q == QueuesOf(h)
<1>1. /\ State(h) /\ Core(h, s, q) /\ s \in [Conn -> Sessions] /\ q \in Queues
      /\ Posted(h) /\ Cleared(h, s)
  BY DEF Fit, Core
<1>2. ~h.sc[k].good /\ h.sc[k].acc = None /\ h.sc[k].send = <<>> /\ h.sc[k].sent = <<>>
  BY <1>1 DEF Posted, GoodOpen
<1>3. q[k] = <<>>
  BY <1>2 DEF QueuesOf
<1>4. s[k] = Clean
  BY <1>1, <1>2 DEF Cleared
<1>5. QueuesOf(g) = q
  BY QueuesSame DEF OnlyOpened
<1> HIDE DEF q
<1>6. Reopens(h, g, s, s, q, q, k)
  BY <1>1, <1>2, <1>3, <1>4 DEF Reopens, OnlyOpened
<1>7. Core(g, s, q) /\ \A c \in Client : Attending(h, q, c) => Attending(g, q, c)
  BY <1>1, <1>6, ReopensKeeps
<1>8. Posted(g)
  <2>1. h.sc[k].post = {}
    BY <1>1 DEF Posted
  <2> QED BY <1>1, <2>1 DEF Posted, OnlyOpened, Open
<1>9. Fit(g, s)
  <2>1. \A c \in Client : Attending(h, q, c)
    BY DEF Fit, q
  <2> QED BY <1>5, <1>7, <1>8, <2>1 DEF Fit
<1>10. \A t \in Req : ~On(QueuesOf(g), k, t)
  <2>1. ~\E i \in 1..0 : TRUE
    OBVIOUS
  <2> QED BY <1>3, <1>5, <2>1 DEF On, Contains
<1>11. ASSUME NEW v, NEW w, InLists(h, v, w) PROVE InLists(g, v, w)
  <2>1. \A j \in Conn : Contains(v, j) => g.sc[j].acc = None /\ g.sc[j].link # "none"
    BY <1>11 DEF InLists, OnlyOpened
  <2> QED BY <1>11, <2>1, ListsSame DEF OnlyOpened
<1> QED BY <1>2, <1>9, <1>10, <1>11 DEF OnlyOpened

\* Nothing has changed for clients and requests.
LEMMA LikeSame ==
    ASSUME NEW h, Known(h), NEW g, State(g), g.cc = h.cc, g.req = h.req,
           \A k \in Conn : /\ g.sc[k].link = h.sc[k].link /\ g.sc[k].good = h.sc[k].good
                           /\ g.sc[k].acc = h.sc[k].acc,
           NEW q
    PROVE  Like(h, g, q)
<1>1. Known(g)
  BY DEF Known
<1>2. \A c \in Client : SameCounters(h.cc[c], g.cc[c])
  BY DEF SameCounters, HasCounters
<1> QED BY <1>1, <1>2 DEF Like, Alive

\* Connection k was got: client c has it, or may be attached to it.
Gotten(h, f, s, c, cmd, k) ==
    /\ f.cc = h.cc /\ f.req = h.req
    /\ Fit(f, s) /\ k \in Conn /\ f.sc[k].good
    /\ \E v, w : InLists(f, v, w) /\ ~Contains(v, k)
    /\ \/ h.cc[c].conn = k
       \/ h.cc[c].conn = None /\ cmd \notin RequirePrivate /\ k = Shared
       \/ /\ h.cc[c].conn = None /\ cmd \in RequirePrivate
          /\ k \in Private /\ f.sc[k].acc = None /\ \A t \in Req : ~On(QueuesOf(f), k, t)

\* The first idle connection is taken.
LEMMA TakenIs ==
    ASSUME NEW h, NEW s, Fit(h, s), GoodOpen(h), NEW v, NEW w, InLists(h, v, w),
           NEW k \in Conn, k = h.idle.head, NEW g, g = PopFront(h, "idle")
    PROVE  /\ Fit(g, s) /\ GoodOpen(g) /\ g.cc = h.cc /\ g.req = h.req
           /\ InLists(g, Tail(v), w) /\ ~Contains(Tail(v), k)
           /\ k \in Private /\ g.sc[k].acc = None /\ g.sc[k].link = h.sc[k].link
           /\ g.sc[k].post = {}
<1>1. State(h) /\ Known(h)
  BY DEF Fit, Core
<1>2. Contains(v, k) /\ InLists(g, Tail(v), w) /\ ~Contains(Tail(v), k)
  BY <1>1, TakeKeeps
<1>3. /\ State(g) /\ g.cc = h.cc /\ g.req = h.req
      /\ \A j \in Conn : /\ SameConn(h.sc[j], g.sc[j])
                         /\ g.sc[j].post = h.sc[j].post /\ g.sc[j].acc = h.sc[j].acc
  BY <1>1, PopFrontIs
<1>4. \A j \in Conn : /\ g.sc[j].link = h.sc[j].link /\ g.sc[j].good = h.sc[j].good
                      /\ g.sc[j].send = h.sc[j].send /\ g.sc[j].sent = h.sc[j].sent
                      /\ g.sc[j].post = h.sc[j].post /\ g.sc[j].acc = h.sc[j].acc
  BY <1>3 DEF SameConn
<1>5. Like(h, g, QueuesOf(h))
  BY ONLY <1>1, <1>3, <1>4, LikeSame
<1>6. Fit(g, s)
  BY <1>4, <1>5, LikeFits
<1>7. k \in Private /\ h.sc[k].acc = None /\ h.sc[k].post = {}
  BY <1>2 DEF InLists
<1>8. GoodOpen(g)
  BY <1>4 DEF GoodOpen, Open
<1> QED BY <1>2, <1>3, <1>4, <1>6, <1>7, <1>8

\* getConnection finds a connection that suits the request: the one of the client,
\* the shared one, or one that nobody has.
LEMMA GotIs ==
    ASSUME Orderly, NEW h, NEW s, Fit(h, s), GoodOpen(h), NEW v, NEW w, InLists(h, v, w),
           NEW c \in Client, NEW cmd, NEW e \in GetConnection(h, c, cmd)
    PROVE  Gotten(h, e.state, s, c, cmd, e.conn)
<1>1. State(h) /\ Posted(h) /\ Attached(h)
  BY DEF Fit, Core
<1>2. ~ServerFails
  BY DEF Orderly
<1>3. \A f, k : Got(f, k).state = f /\ Got(f, k).conn = k
  BY DEF Got
\* A connection that is opened.
<1>4. ASSUME NEW f, Fit(f, s), GoodOpen(f), f.cc = h.cc, f.req = h.req, NEW k \in Conn,
             ~Open(f.sc[k]), NEW a, NEW b, InLists(f, a, b), ~Contains(a, k),
             h.cc[c].conn = None, IF cmd \in RequirePrivate THEN k \in Private ELSE k = Shared
      PROVE  Gotten(h, Opened(f, k), s, c, cmd, k)
  <2> DEFINE g == Opened(f, k)
  <2>1. OnlyOpened(f, g, k)
    BY <1>4, OpenedIs DEF Fit, Core
  <2> HIDE DEF g
  <2>2. /\ Fit(g, s) /\ g.sc[k].acc = None /\ \A t \in Req : ~On(QueuesOf(g), k, t)
        /\ InLists(g, a, b)
    BY <1>4, <2>1, OpenKeeps
  <2>3. g.cc = h.cc /\ g.req = h.req /\ g.sc[k].good
    BY <1>4, <2>1 DEF OnlyOpened
  <2>4. Gotten(h, g, s, c, cmd, k)
    BY <1>4, <2>2, <2>3 DEF Gotten
  <2> QED BY <2>4 DEF g
<1>5. CASE h.cc[c].conn # None /\ e = Got(h, h.cc[c].conn)
  <2> DEFINE k == h.cc[c].conn
  <2>1. k \in Conn
    BY <1>1, <1>5 DEF State, AcceptConn
  <2>2. h.sc[k].acc = c /\ c # None
    BY <1>1, <2>1, Constants DEF Attached
  <2>3. h.sc[k].good
    BY <1>1, <2>1, <2>2 DEF Attached
  <2>4. ~Contains(v, k)
    BY <2>1, <2>2 DEF InLists
  <2>5. e.state = h /\ e.conn = k
    BY <1>3, <1>5
  <2> QED BY <2>1, <2>3, <2>4, <2>5 DEF Gotten
<1>6. CASE /\ h.cc[c].conn = None /\ cmd \notin RequirePrivate
           /\ e = Got(IF Open(h.sc[Shared]) THEN h ELSE Opened(h, Shared), Shared)
  <2>1. ~Contains(v, Shared) /\ Shared \in Conn
    BY Constants DEF InLists
  <2>2. CASE Open(h.sc[Shared])
    <3>1. e.state = h /\ e.conn = Shared
      BY <1>3, <1>6, <2>2
    <3>2. h.sc[Shared].good
      BY <1>1, <2>1, <2>2 DEF Posted
    <3> QED BY <1>6, <2>1, <3>1, <3>2 DEF Gotten
  <2>3. CASE ~Open(h.sc[Shared])
    <3>1. e.state = Opened(h, Shared) /\ e.conn = Shared
      BY <1>3, <1>6, <2>3
    <3>2. Gotten(h, Opened(h, Shared), s, c, cmd, Shared)
      BY <1>4, <1>6, <2>1, <2>3
    <3> QED BY <3>1, <3>2
  <2> QED BY <2>2, <2>3
<1>7. CASE /\ h.cc[c].conn = None /\ cmd \in RequirePrivate /\ h.idle.head = None
           /\ \E k \in Private : h.sc[k].link = "none" /\ e = Got(Opened(h, k), k)
  <2>1. PICK k \in Private : h.sc[k].link = "none" /\ e = Got(Opened(h, k), k)
    BY <1>7
  <2>2. k \in Conn /\ ~Open(h.sc[k])
    BY <2>1, Constants DEF Open
  <2>3. ~Contains(v, k)
    BY <2>1, <2>2 DEF InLists
  <2>4. e.state = Opened(h, k) /\ e.conn = k
    BY <1>3, <2>1
  <2>5. Gotten(h, Opened(h, k), s, c, cmd, k)
    BY <1>4, <1>7, <2>2, <2>3
  <2> QED BY <2>4, <2>5
<1>8. CASE /\ h.cc[c].conn = None /\ cmd \in RequirePrivate /\ h.idle.head # None
           /\ e = Got(IF Open(h.sc[h.idle.head]) THEN PopFront(h, "idle")
                      ELSE Opened(PopFront(h, "idle"), h.idle.head), h.idle.head)
  <2> DEFINE k == h.idle.head
             f == PopFront(h, "idle")
  <2>1. k \in Conn
    BY <1>1, <1>8 DEF State, List
  <2>2. /\ Fit(f, s) /\ GoodOpen(f) /\ f.cc = h.cc /\ f.req = h.req
        /\ InLists(f, Tail(v), w) /\ ~Contains(Tail(v), k)
        /\ k \in Private /\ f.sc[k].acc = None /\ f.sc[k].link = h.sc[k].link
        /\ f.sc[k].post = {}
    BY <2>1, TakenIs
  <2>3. e = Got(IF Open(h.sc[k]) THEN f ELSE Opened(f, k), k)
    BY <1>8
  <2> HIDE DEF k, f
  <2>4. CASE Open(h.sc[k])
    <3>1. e.state = f /\ e.conn = k
      BY <1>3, <2>3, <2>4
    <3>2. Posted(f) /\ Pending(f, QueuesOf(f)) /\ State(f)
      BY <2>2 DEF Fit, Core
    <3>3. f.sc[k].good
      BY <2>1, <2>2, <2>4, <3>2 DEF Posted, Open
    <3>4. ASSUME NEW t \in Req, On(QueuesOf(f), k, t) PROVE FALSE
      <4>1. f.sc[k].acc = t[1]
        BY <2>1, <2>2, <3>2, <3>3, <3>4 DEF Pending
      <4> QED BY <2>2, <4>1, Constants
    <3> QED BY <1>8, <2>1, <2>2, <3>1, <3>3, <3>4 DEF Gotten
  <2>5. CASE ~Open(h.sc[k])
    <3>1. e.state = Opened(f, k) /\ e.conn = k
      BY <1>3, <2>3, <2>5
    <3>2. ~Open(f.sc[k])
      BY <2>2, <2>5 DEF Open
    <3>3. Gotten(h, Opened(f, k), s, c, cmd, k)
      BY <1>4, <1>8, <2>1, <2>2, <3>2
    <3> QED BY <3>1, <3>3
  <2> QED BY <2>4, <2>5
<1> QED BY <1>2, <1>5, <1>6, <1>7, <1>8, GetCases

-----------------------------------------------------------------------------
(* A request is queued.                                                    *)

\* Client c is x now.
OnlyClient(h, g, c, x) ==
    /\ State(g) /\ g.sc = h.sc /\ g.idle = h.idle /\ g.req = h.req /\ g.postS = h.postS
    /\ g.postA = h.postA
    /\ \A d \in Client : g.cc[d] = IF d = c THEN x ELSE h.cc[d]

\* Setting a client changes nothing else.
LEMMA ClientSet ==
    ASSUME NEW h, State(h), NEW c \in Client, NEW x \in AcceptConn
    PROVE  OnlyClient(h, [h EXCEPT !.cc[c] = x], c, x)
<1> DEFINE g == [h EXCEPT !.cc[c] = x]
<1>1. /\ DOMAIN g = Parts /\ g.sc = h.sc /\ g.idle = h.idle /\ g.req = h.req
      /\ g.postS = h.postS /\ g.postA = h.postA /\ g.cc = [h.cc EXCEPT ![c] = x]
  BY DEF State, Parts
<1> HIDE DEF g
<1>2. g.cc \in [Client -> AcceptConn] /\ \A d \in Client : g.cc[d] = IF d = c THEN x ELSE h.cc[d]
  BY <1>1 DEF State
<1>3. State(g)
  BY <1>1, <1>2 DEF State
<1>4. OnlyClient(h, g, c, x)
  BY <1>1, <1>2, <1>3 DEF OnlyClient
<1> QED BY <1>4 DEF g

\* What postHandleRequest does.
OnlyHandled(h, g, r, k) ==
    LET x == h.cc[r[1]]
        y == g.cc[r[1]]
        cmd == h.req[r].cmd
    IN /\ State(g) /\ g.req = h.req /\ g.idle = h.idle /\ g.postS = h.postS
       /\ \A d \in Client : d # r[1] => g.cc[d] = h.cc[d]
       /\ SameClient(x, y)
       /\ y.conn = (IF cmd \in RequirePrivate THEN k ELSE x.conn)
       /\ y.block = (x.block \/ cmd \in Blocking)
       /\ HasCounters(y, x.pendWatch + Adds(cmd, "watch"), x.watch,
                      x.pendMulti + Adds(cmd, "multi"), x.multi,
                      x.pendSub + Adds(cmd, "subscribe"), x.sub)
       /\ \A j \in Conn : /\ SameConn(h.sc[j], g.sc[j])
                          /\ g.sc[j].post = h.sc[j].post /\ g.sc[j].next = h.sc[j].next
                          /\ g.sc[j].acc = IF j = k /\ cmd \in RequirePrivate
                                           THEN r[1] ELSE h.sc[j].acc

\* A client has one more of something under way.
LEMMA PendingMore ==
    ASSUME NEW x \in AcceptConn, NEW y,
           NEW kind \in {"watch", "multi", "subscribe", "none"},
           y = CASE kind = "watch" -> [x EXCEPT !.pendWatch = @ + 1]
                 [] kind = "multi" -> [x EXCEPT !.pendMulti = @ + 1]
                 [] kind = "subscribe" -> [x EXCEPT !.pendSub = @ + 1]
                 [] OTHER -> x
    PROVE  /\ y \in AcceptConn /\ Apart(x, y) /\ y.block = x.block
           /\ HasCounters(y, x.pendWatch + Adds(kind, "watch"), x.watch,
                          x.pendMulti + Adds(kind, "multi"), x.multi,
                          x.pendSub + Adds(kind, "subscribe"), x.sub)
<1>1. x.pendWatch \in Nat /\ x.pendMulti \in Nat /\ x.pendSub \in Nat
  BY DEF AcceptConn
<1>2. CASE kind = "watch"
  <2>1. y = [x EXCEPT !.pendWatch = @ + 1]
    BY <1>2
  <2>2. y \in AcceptConn
    <3>1. x.pendWatch + 1 \in Nat /\ y = [x EXCEPT !.pendWatch = x.pendWatch + 1]
      BY <1>1, <2>1
    <3> QED BY ONLY <3>1, x \in AcceptConn DEF AcceptConn
  <2>3. /\ y.pendWatch = x.pendWatch + 1 /\ y.pendMulti = x.pendMulti /\ y.pendSub = x.pendSub
        /\ y.watch = x.watch /\ y.multi = x.multi /\ y.sub = x.sub
        /\ Apart(x, y) /\ y.block = x.block
    BY <2>1 DEF AcceptConn, Apart
  <2>4. Adds(kind, "watch") = 1 /\ Adds(kind, "multi") = 0 /\ Adds(kind, "subscribe") = 0
    BY <1>2 DEF Adds
  <2> QED BY ONLY <1>1, <2>2, <2>3, <2>4 DEF HasCounters
<1>3. CASE kind = "multi"
  <2>1. y = [x EXCEPT !.pendMulti = @ + 1]
    BY <1>3
  <2>2. y \in AcceptConn
    <3>1. x.pendMulti + 1 \in Nat /\ y = [x EXCEPT !.pendMulti = x.pendMulti + 1]
      BY <1>1, <2>1
    <3> QED BY ONLY <3>1, x \in AcceptConn DEF AcceptConn
  <2>3. /\ y.pendMulti = x.pendMulti + 1 /\ y.pendWatch = x.pendWatch /\ y.pendSub = x.pendSub
        /\ y.watch = x.watch /\ y.multi = x.multi /\ y.sub = x.sub
        /\ Apart(x, y) /\ y.block = x.block
    BY <2>1 DEF AcceptConn, Apart
  <2>4. Adds(kind, "watch") = 0 /\ Adds(kind, "multi") = 1 /\ Adds(kind, "subscribe") = 0
    BY <1>3 DEF Adds
  <2> QED BY ONLY <1>1, <2>2, <2>3, <2>4 DEF HasCounters
<1>4. CASE kind = "subscribe"
  <2>1. y = [x EXCEPT !.pendSub = @ + 1]
    BY <1>4
  <2>2. y \in AcceptConn
    <3>1. x.pendSub + 1 \in Nat /\ y = [x EXCEPT !.pendSub = x.pendSub + 1]
      BY <1>1, <2>1
    <3> QED BY ONLY <3>1, x \in AcceptConn DEF AcceptConn
  <2>3. /\ y.pendSub = x.pendSub + 1 /\ y.pendWatch = x.pendWatch /\ y.pendMulti = x.pendMulti
        /\ y.watch = x.watch /\ y.multi = x.multi /\ y.sub = x.sub
        /\ Apart(x, y) /\ y.block = x.block
    BY <2>1 DEF AcceptConn, Apart
  <2>4. Adds(kind, "watch") = 0 /\ Adds(kind, "multi") = 0 /\ Adds(kind, "subscribe") = 1
    BY <1>4 DEF Adds
  <2> QED BY ONLY <1>1, <2>2, <2>3, <2>4 DEF HasCounters
<1>5. CASE kind = "none"
  <2>1. y = x
    BY <1>5
  <2> QED BY <1>1, <1>5, <2>1 DEF AcceptConn, Apart, HasCounters, Adds
<1> QED BY <1>2, <1>3, <1>4, <1>5

\* A client and a connection are attached.
LEMMA AttachIs ==
    ASSUME NEW h, State(h), NEW c \in Client, NEW k \in Conn, NEW g, g = Attach(h, c, k)
    PROVE  /\ State(g) /\ g.req = h.req /\ g.idle = h.idle /\ g.postS = h.postS
           /\ \A d \in Client : d # c => g.cc[d] = h.cc[d]
           /\ g.cc[c].conn = k /\ g.cc[c].block = h.cc[c].block
           /\ SameClient(h.cc[c], g.cc[c]) /\ SameCounters(h.cc[c], g.cc[c])
           /\ \A j \in Conn : /\ SameConn(h.sc[j], g.sc[j])
                              /\ g.sc[j].post = h.sc[j].post /\ g.sc[j].next = h.sc[j].next
                              /\ g.sc[j].acc = IF j = k THEN c ELSE h.sc[j].acc
<1> DEFINE x == [h.cc[c] EXCEPT !.conn = k]
           y == [h.sc[k] EXCEPT !.acc = c]
<1>1. /\ g.cc = [h.cc EXCEPT ![c] = x] /\ g.sc = [h.sc EXCEPT ![k] = y]
      /\ g.req = h.req /\ g.idle = h.idle /\ g.postS = h.postS
  BY DEF Attach, State, Parts
<1>2. State(g)
  BY AttachFrame DEF Frame
<1>3. x.conn = k /\ x.block = h.cc[c].block /\ SameClient(h.cc[c], x) /\ SameCounters(h.cc[c], x)
  <2>1. h.cc[c] \in AcceptConn
    BY DEF State
  <2> QED BY <2>1 DEF AcceptConn, SameClient, SameCounters, HasCounters
<1>4. SameConn(h.sc[k], y) /\ y.post = h.sc[k].post /\ y.next = h.sc[k].next /\ y.acc = c
  <2>1. h.sc[k] \in ConnectConn
    BY DEF State
  <2> QED BY <2>1 DEF ConnectConn, SameConn
<1>5. \A j \in Conn : SameConn(h.sc[j], h.sc[j])
  BY DEF SameConn, State
<1> HIDE DEF x, y
<1>6. /\ \A d \in Client : g.cc[d] = IF d = c THEN x ELSE h.cc[d]
      /\ \A j \in Conn : g.sc[j] = IF j = k THEN y ELSE h.sc[j]
  BY <1>1 DEF State
<1>7. c \in Client /\ k \in Conn
  OBVIOUS
<1> QED BY ONLY <1>1, <1>2, <1>3, <1>4, <1>5, <1>6, <1>7

\* postHandle changes the client of the request and attaches the connection.
LEMMA PostHandleIs ==
    ASSUME NEW h, State(h), NEW r \in Req, NEW k \in Conn
    PROVE  OnlyHandled(h, PostHandle(h, r, k), r, k)
<1> DEFINE c == r[1]
           cmd == h.req[r].cmd
           x == h.cc[c]
           kind == IF cmd \in {"watch", "multi", "subscribe"} THEN cmd ELSE "none"
           x1 == IF cmd \in Blocking THEN [x EXCEPT !.block = TRUE] ELSE x
           x2 == CASE kind = "watch" -> [x1 EXCEPT !.pendWatch = @ + 1]
                   [] kind = "multi" -> [x1 EXCEPT !.pendMulti = @ + 1]
                   [] kind = "subscribe" -> [x1 EXCEPT !.pendSub = @ + 1]
                   [] OTHER -> x1
           b == IF cmd \in Blocking THEN [h EXCEPT !.cc[c].block = TRUE] ELSE h
           a == CASE cmd = "watch" -> [b EXCEPT !.cc[c].pendWatch = @ + 1]
                  [] cmd = "multi" -> [b EXCEPT !.cc[c].pendMulti = @ + 1]
                  [] cmd = "subscribe" -> [b EXCEPT !.cc[c].pendSub = @ + 1]
                  [] OTHER -> b
           g == PostHandle(h, r, k)
<1>1. c \in Client /\ x \in AcceptConn
  BY Constants DEF State
<1>2. g = IF cmd \in RequirePrivate THEN Attach(a, c, k) ELSE a
  BY DEF PostHandle
<1>3. OnlyClient(h, b, c, x1)
  <2>1. CASE cmd \in Blocking
    <3>1. [x EXCEPT !.block = TRUE] \in AcceptConn
      BY <1>1 DEF AcceptConn
    <3>2. OnlyClient(h, [h EXCEPT !.cc[c] = [x EXCEPT !.block = TRUE]], c, [x EXCEPT !.block = TRUE])
      BY <1>1, <3>1, ClientSet
    <3> QED BY <2>1, <3>2
  <2>2. CASE cmd \notin Blocking
    BY <1>1, <2>2 DEF OnlyClient
  <2> QED BY <2>1, <2>2
<1>4. /\ x1 \in AcceptConn /\ Apart(x, x1) /\ x1.block = (x.block \/ cmd \in Blocking)
      /\ SameCounters(x, x1)
  BY <1>1 DEF AcceptConn, Apart, SameCounters, HasCounters
<1> HIDE DEF x1, b
<1>5. /\ x2 \in AcceptConn /\ Apart(x1, x2) /\ x2.block = x1.block
      /\ HasCounters(x2, x1.pendWatch + Adds(kind, "watch"), x1.watch,
                     x1.pendMulti + Adds(kind, "multi"), x1.multi,
                     x1.pendSub + Adds(kind, "subscribe"), x1.sub)
  BY <1>4, PendingMore
<1>6. OnlyClient(h, a, c, x2)
  <2>0. State(b) /\ b.cc[c] = x1
    BY <1>1, <1>3 DEF OnlyClient
  <2>1. a = [b EXCEPT !.cc[c] = x2] \/ (a = b /\ x2 = x1)
    <3>1. CASE cmd = "watch"
      BY <2>0, <3>1
    <3>2. CASE cmd = "multi"
      BY <2>0, <3>2
    <3>3. CASE cmd = "subscribe"
      BY <2>0, <3>3
    <3>4. CASE cmd \notin {"watch", "multi", "subscribe"}
      BY <2>0, <3>4
    <3> QED BY <3>1, <3>2, <3>3, <3>4
  <2>2. OnlyClient(b, [b EXCEPT !.cc[c] = x2], c, x2)
    BY <1>1, <1>5, <2>0, ClientSet
  <2> HIDE DEF a, x2
  <2> QED BY <1>3, <2>1, <2>2 DEF OnlyClient
<1>7. \A s \in {"watch", "multi", "subscribe"} : Adds(kind, s) = Adds(cmd, s)
  BY DEF Adds
<1> HIDE DEF a, x2, kind
<1>8. /\ Apart(x, x2) /\ x2.block = (x.block \/ cmd \in Blocking)
      /\ HasCounters(x2, x.pendWatch + Adds(cmd, "watch"), x.watch,
                     x.pendMulti + Adds(cmd, "multi"), x.multi,
                     x.pendSub + Adds(cmd, "subscribe"), x.sub)
  BY <1>4, <1>5, <1>7 DEF Apart, SameCounters, HasCounters
<1>9. /\ State(a) /\ a.req = h.req /\ a.idle = h.idle /\ a.postS = h.postS /\ a.sc = h.sc
      /\ a.cc[c] = x2 /\ \A d \in Client : d # c => a.cc[d] = h.cc[d]
  BY <1>1, <1>6 DEF OnlyClient
<1>10. \A j \in Conn : SameConn(h.sc[j], h.sc[j])
  BY DEF SameConn, State
<1> HIDE DEF g, x, cmd
<1>11. CASE cmd \in RequirePrivate
  <2>1. g = Attach(a, c, k)
    BY <1>2, <1>11
  <2>2. /\ State(g) /\ g.req = a.req /\ g.idle = a.idle /\ g.postS = a.postS
        /\ \A d \in Client : d # c => g.cc[d] = a.cc[d]
        /\ g.cc[c].conn = k /\ g.cc[c].block = a.cc[c].block
        /\ SameClient(a.cc[c], g.cc[c]) /\ SameCounters(a.cc[c], g.cc[c])
        /\ \A j \in Conn : /\ SameConn(a.sc[j], g.sc[j])
                           /\ g.sc[j].post = a.sc[j].post /\ g.sc[j].next = a.sc[j].next
                           /\ g.sc[j].acc = IF j = k THEN c ELSE a.sc[j].acc
    BY <1>1, <1>9, <2>1, AttachIs
  <2>3. /\ SameClient(x, g.cc[c])
        /\ HasCounters(g.cc[c], x.pendWatch + Adds(cmd, "watch"), x.watch,
                     x.pendMulti + Adds(cmd, "multi"), x.multi,
                     x.pendSub + Adds(cmd, "subscribe"), x.sub)
    BY ONLY <1>8, <1>9, <2>2 DEF SameClient, Apart, SameCounters, HasCounters
  <2>4. OnlyHandled(h, g, r, k)
    BY ONLY <1>8, <1>9, <1>11, <2>2, <2>3 DEF OnlyHandled, x, cmd
  <2> QED BY <2>4 DEF g
<1>12. CASE cmd \notin RequirePrivate
  <2>1. g = a
    BY <1>2, <1>12
  <2>2. SameClient(x, x2) /\ x2.conn = x.conn
    BY <1>5, <1>8 DEF SameClient, Apart
  <2>3. OnlyHandled(h, a, r, k)
    BY ONLY <1>8, <1>9, <1>10, <1>12, <2>2 DEF OnlyHandled, x, cmd
  <2> QED BY <2>1, <2>3 DEF g
<1> QED BY <1>11, <1>12

\* What joins the second part joins the end.
LEMMA AppendSecond ==
    ASSUME NEW S, NEW a \in Seq(S), NEW b \in Seq(S), NEW r \in S
    PROVE  a \o Append(b, r) = Append(a \o b, r)
  OBVIOUS

\* Request r is queued on connection k.
OnlyQueued(h, g, k, r) ==
    /\ State(g) /\ g.cc = h.cc /\ g.req = h.req /\ g.idle = h.idle /\ g.postS = h.postS
    /\ g.postA = h.postA
    /\ \A j \in Conn : /\ g.sc[j].send = IF j = k THEN Append(h.sc[j].send, r) ELSE h.sc[j].send
                       /\ g.sc[j].sent = h.sc[j].sent /\ g.sc[j].link = h.sc[j].link
                       /\ g.sc[j].good = h.sc[j].good /\ g.sc[j].post = h.sc[j].post
                       /\ g.sc[j].acc = h.sc[j].acc /\ g.sc[j].next = h.sc[j].next

\* Appending a request changes nothing else.
LEMMA QueuedIs ==
    ASSUME NEW h, State(h), NEW k \in Conn, NEW r \in Req
    PROVE  OnlyQueued(h, [h EXCEPT !.sc[k].send = Append(@, r)], k, r)
<1> DEFINE g == [h EXCEPT !.sc[k].send = Append(@, r)]
           y == [h.sc[k] EXCEPT !.send = Append(@, r)]
<1>1. /\ DOMAIN g = Parts /\ g.cc = h.cc /\ g.req = h.req /\ g.postA = h.postA
      /\ g.idle = h.idle /\ g.postS = h.postS /\ g.sc = [h.sc EXCEPT ![k] = y]
  BY DEF State, Parts
<1>2. /\ y \in ConnectConn /\ y.send = Append(h.sc[k].send, r) /\ y.link = h.sc[k].link
      /\ y.good = h.sc[k].good /\ y.sent = h.sc[k].sent /\ y.post = h.sc[k].post
      /\ y.acc = h.sc[k].acc /\ y.next = h.sc[k].next
  <2>1. h.sc[k] \in ConnectConn
    BY DEF State
  <2>2. Append(h.sc[k].send, r) \in Seq(Req)
    BY <2>1 DEF ConnectConn
  <2> QED BY <2>1, <2>2 DEF ConnectConn
<1> HIDE DEF g, y
<1>3. g.sc \in [Conn -> ConnectConn] /\ \A j \in Conn : g.sc[j] = IF j = k THEN y ELSE h.sc[j]
  BY <1>1, <1>2 DEF State
<1>4. State(g)
  BY <1>1, <1>3 DEF State
<1>5. OnlyQueued(h, g, k, r)
  BY <1>1, <1>2, <1>3, <1>4 DEF OnlyQueued
<1> QED BY <1>5 DEF g

\* A request is queued on the connection that was got.
Enqueued(f, g, k, r) ==
    g = PostHandle(PostS([f EXCEPT !.sc[k].send = Append(@, r)], k, "Write"), r, k)

\* The invariant is kept when a request is queued on the connection that was got.
LEMMA EnqueueFits ==
    ASSUME NEW h, NEW f, NEW s, NEW r \in Req, NEW k \in Conn,
           Gotten(h, f, s, r[1], h.req[r].cmd, k), GoodOpen(f),
           Alive(h, r[1]), ~h.cc[r[1]].block, r[2] \in ReadOf(h.cc[r[1]]),
           Contains(h.cc[r[1]].requests, r), h.req[r].cmd \in Empty \/ h.req[r].res = "none",
           \A j \in Conn : ~On(QueuesOf(f), j, r),
           NEW g, Enqueued(f, g, k, r)
    PROVE  Fit(g, s) /\ (\E v, w : InLists(g, v, w)) /\ Alive(g, r[1])
<1> DEFINE c == r[1]
           cmd == h.req[r].cmd
           f1 == [f EXCEPT !.sc[k].send = Append(@, r)]
           f2 == PostS(f1, k, "Write")
           q == QueuesOf(f)
           p == QueuesOf(g)
<1>1. /\ f.cc = h.cc /\ f.req = h.req /\ Fit(f, s) /\ f.sc[k].good
      /\ \E v, w : InLists(f, v, w) /\ ~Contains(v, k)
      /\ \/ h.cc[c].conn = k
         \/ h.cc[c].conn = None /\ cmd \notin RequirePrivate /\ k = Shared
         \/ /\ h.cc[c].conn = None /\ cmd \in RequirePrivate
            /\ k \in Private /\ f.sc[k].acc = None /\ \A t \in Req : ~On(q, k, t)
  BY DEF Gotten
<1>2. PICK v, w : InLists(f, v, w) /\ ~Contains(v, k)
  BY <1>1
<1>3. /\ State(f) /\ Core(f, s, q) /\ Once(q) /\ q \in Queues /\ Posted(f)
      /\ Attending(f, q, c) /\ c \in Client
  BY <1>1, Constants DEF Fit, Core
<1>4. OnlyQueued(f, f1, k, r)
  BY <1>3, QueuedIs
<1> HIDE DEF f1
<1>5. InLists(f1, v, w)
  <2>1. \A j \in Conn : Contains(v, j) => f1.sc[j].acc = None /\ f1.sc[j].link # "none"
    BY <1>2, <1>4 DEF InLists, OnlyQueued
  <2> QED BY <1>2, <1>4, <2>1, ListsSame DEF OnlyQueued
<1>6. OnlyPosted(f1, f2, k, "Write") /\ \E u : InLists(f2, v, u)
  BY <1>2, <1>4, <1>5, PostSIs DEF OnlyQueued, Event
<1>7. PICK u : InLists(f2, v, u)
  BY <1>6
<1>8. g = PostHandle(f2, r, k)
  BY DEF f1, Enqueued
<1> HIDE DEF f2
<1>9. OnlyHandled(f2, g, r, k)
  BY <1>6, <1>8, PostHandleIs DEF OnlyPosted
<1>10. /\ f2.cc = h.cc /\ f2.req = h.req
  BY <1>1, <1>4, <1>6 DEF OnlyPosted, OnlyQueued
<1>11. /\ State(g) /\ g.req = f.req
       /\ \A d \in Client : d # c => g.cc[d] = f.cc[d]
       /\ SameClient(f.cc[c], g.cc[c])
       /\ g.cc[c].conn = (IF cmd \in RequirePrivate THEN k ELSE f.cc[c].conn)
       /\ g.cc[c].block = (f.cc[c].block \/ cmd \in Blocking)
       /\ HasCounters(g.cc[c], f.cc[c].pendWatch + Adds(cmd, "watch"), f.cc[c].watch,
                      f.cc[c].pendMulti + Adds(cmd, "multi"), f.cc[c].multi,
                      f.cc[c].pendSub + Adds(cmd, "subscribe"), f.cc[c].sub)
       /\ \A j \in Conn : /\ SameConn(f2.sc[j], g.sc[j])
                          /\ g.sc[j].post = f2.sc[j].post /\ g.sc[j].next = f2.sc[j].next
                          /\ g.sc[j].acc = IF j = k /\ cmd \in RequirePrivate
                                           THEN c ELSE f2.sc[j].acc
  <2>1. f2.cc = f.cc /\ f2.req = f.req /\ f.req[r].cmd = cmd
    BY <1>1, <1>10
  <2> QED BY ONLY <1>9, <2>1 DEF OnlyHandled
<1>12. \A j \in Conn : /\ g.sc[j].send = IF j = k THEN Append(f.sc[j].send, r) ELSE f.sc[j].send
                       /\ g.sc[j].sent = f.sc[j].sent /\ g.sc[j].link = f.sc[j].link
                       /\ g.sc[j].good = f.sc[j].good
                       /\ g.sc[j].post = IF j = k THEN f.sc[j].post \cup {"Write"}
                                         ELSE f.sc[j].post
                       /\ g.sc[j].acc = IF j = k /\ cmd \in RequirePrivate
                                        THEN c ELSE f.sc[j].acc
  <2> TAKE j \in Conn
  <2>1. /\ f2.sc[j].send = f1.sc[j].send /\ f2.sc[j].sent = f1.sc[j].sent
        /\ f2.sc[j].link = f1.sc[j].link /\ f2.sc[j].good = f1.sc[j].good
        /\ f2.sc[j].acc = f1.sc[j].acc
        /\ f2.sc[j].post = IF j = k THEN f1.sc[j].post \cup {"Write"} ELSE f1.sc[j].post
    BY <1>6 DEF OnlyPosted, SameConn
  <2>2. /\ g.sc[j].send = f2.sc[j].send /\ g.sc[j].sent = f2.sc[j].sent
        /\ g.sc[j].link = f2.sc[j].link /\ g.sc[j].good = f2.sc[j].good
        /\ g.sc[j].post = f2.sc[j].post
        /\ g.sc[j].acc = IF j = k /\ cmd \in RequirePrivate THEN c ELSE f2.sc[j].acc
    BY <1>11 DEF SameConn
  <2>3. /\ f1.sc[j].send = IF j = k THEN Append(f.sc[j].send, r) ELSE f.sc[j].send
        /\ f1.sc[j].sent = f.sc[j].sent /\ f1.sc[j].link = f.sc[j].link
        /\ f1.sc[j].good = f.sc[j].good /\ f1.sc[j].post = f.sc[j].post
        /\ f1.sc[j].acc = f.sc[j].acc
    BY <1>4 DEF OnlyQueued
  <2> QED BY ONLY <2>1, <2>2, <2>3
<1>13. p \in Queues /\ More(q[k], p[k], r) /\ \A j \in Conn : j # k => p[j] = q[j]
  <2>1. \A j \in Conn : f.sc[j].sent \in Seq(Req) /\ f.sc[j].send \in Seq(Req)
    BY <1>3 DEF State, ConnectConn
  <2>2. p[k] = f.sc[k].sent \o Append(f.sc[k].send, r)
    BY <1>12 DEF QueuesOf
  <2>3. q[k] = f.sc[k].sent \o f.sc[k].send
    BY DEF QueuesOf
  <2>4. p[k] = Append(q[k], r)
    <3> DEFINE a == f.sc[k].sent
               b == f.sc[k].send
    <3>1. a \in Seq(Req) /\ b \in Seq(Req) /\ r \in Req
      BY <2>1
    <3> HIDE DEF a, b
    <3>2. a \o Append(b, r) = Append(a \o b, r)
      BY <3>1, AppendSecond
    <3>3. p[k] = a \o Append(b, r) /\ q[k] = a \o b
      BY <2>2, <2>3 DEF a, b
    <3> QED BY ONLY <3>2, <3>3
  <2>5. \A j \in Conn : j # k => p[j] = q[j]
    BY <1>12 DEF QueuesOf
  <2>6. p = [j \in Conn |-> p[j]]
    BY DEF QueuesOf
  <2> HIDE DEF p, q
  <2>7. q[k] \in Seq(Req) /\ \A j \in Conn : q[j] \in Seq(Req)
    BY <1>3 DEF Queues
  <2>8. \A j \in Conn : p[j] \in Seq(Req)
    <3>1. Append(q[k], r) \in Seq(Req)
      BY <2>7, AppendProperties
    <3>2. ASSUME NEW j \in Conn PROVE p[j] \in Seq(Req)
      BY ONLY <2>4, <2>5, <2>7, <3>1, j \in Conn
    <3> QED BY <3>2
  <2>9. p \in Queues
    BY ONLY <2>6, <2>8 DEF Queues
  <2>10. \A i, j \in 1..Len(q[k]) : q[k][i] = q[k][j] => i = j
    BY <1>3 DEF Once
  <2>11. ~Contains(q[k], r)
    BY DEF On, q
  <2>12. More(q[k], p[k], r)
    BY <2>4, <2>7, <2>10, <2>11, MoreIs
  <2> QED BY <2>5, <2>9, <2>12
<1>14. \A d \in Client : SameClient(f.cc[d], g.cc[d]) /\ (d # c => SameAs(f.cc[d], g.cc[d]))
  <2>1. \A d \in Client : SameAs(f.cc[d], f.cc[d]) /\ SameClient(f.cc[d], f.cc[d])
    BY <1>3 DEF SameAs, Apart, SameCounters, HasCounters, SameClient, State
  <2> QED BY <1>11, <2>1
<1>15. \A j \in Conn : ~On(q, j, r)
  OBVIOUS
<1>16. /\ \/ f.cc[c].conn = k
          \/ f.cc[c].conn = None /\ f.req[r].cmd \notin RequirePrivate /\ k = Shared
          \/ /\ f.cc[c].conn = None /\ f.req[r].cmd \in RequirePrivate
             /\ k \in Private /\ f.sc[k].good /\ f.sc[k].acc = None /\ \A t \in Req : ~On(q, k, t)
       /\ Alive(f, c) /\ ~f.cc[c].block
       /\ r[2] \in ReadOf(f.cc[c]) /\ Contains(f.cc[c].requests, r)
       /\ f.req[r].cmd \in Empty \/ f.req[r].res = "none"
  BY <1>1 DEF Alive
<1>17. f.req[r].cmd = cmd
  BY <1>1
<1> HIDE DEF p, q, c, cmd
<1>18. g.cc[c].block = (cmd \in Blocking)
  <2>1. CASE cmd \in Blocking
    BY <1>11, <2>1
  <2>2. CASE cmd \notin Blocking
    <3>1. ~f.cc[c].block
      BY <1>16
    <3>2. g.cc[c].block = (f.cc[c].block \/ cmd \in Blocking)
      BY <1>11
    <3> QED BY ONLY <2>2, <3>1, <3>2
  <2> QED BY <2>1, <2>2
<1>19. Joins(f, g, s, q, p, k, r)
  BY ONLY <1>3, <1>11, <1>12, <1>13, <1>14, <1>15, <1>16, <1>17, <1>18 DEF Joins, c
<1>20. /\ Core(g, s, p) /\ Attending(g, p, c)
       /\ \A d \in Client : d # c /\ Attending(f, q, d) => Attending(g, p, d)
  BY <1>3, <1>19, JoinsKeeps DEF c
<1>21. Posted(g)
  <2>1. Open(f.sc[k])
    BY <1>1 DEF GoodOpen
  <2>2. g.sc[k].send # <<>>
    <3>1. f.sc[k].send \in Seq(Req)
      BY <1>3 DEF State, ConnectConn
    <3>2. Append(f.sc[k].send, r) # <<>>
      BY <3>1, AppendProperties
    <3> QED BY <1>12, <3>2
  <2>3. Open(g.sc[k]) /\ g.sc[k].good /\ g.sc[k].post \subseteq {"Write"}
    BY <1>1, <1>3, <1>12, <2>1 DEF Posted, Open
  <2> SUFFICES ASSUME NEW j \in Conn, j # k
               PROVE  /\ g.sc[j].good =>
                           /\ g.sc[j].post \subseteq {"Write"}
                           /\ g.sc[j].post # {} => g.sc[j].send # <<>>
                      /\ Open(g.sc[j]) /\ ~g.sc[j].good => j # Shared /\ "Error" \in g.sc[j].post
                      /\ ~Open(g.sc[j]) => /\ g.sc[j].send = <<>> /\ g.sc[j].sent = <<>>
                                           /\ g.sc[j].post = {} /\ g.sc[j].acc = None
    BY <2>2, <2>3 DEF Posted
  <2>4. /\ g.sc[j].send = f.sc[j].send /\ g.sc[j].sent = f.sc[j].sent
        /\ g.sc[j].link = f.sc[j].link /\ g.sc[j].good = f.sc[j].good
        /\ g.sc[j].post = f.sc[j].post /\ g.sc[j].acc = f.sc[j].acc
    BY <1>12
  <2> QED BY <1>3, <2>4 DEF Posted, Open
<1>22. Fit(g, s)
  <2>1. \A d \in Client : Attending(f, q, d)
    BY <1>1 DEF Fit, q
  <2> QED BY <1>20, <1>21, <2>1 DEF Fit, p
<1>23. InLists(g, v, u)
  <2>1. g.idle = f2.idle /\ g.postS = f2.postS
    BY <1>9 DEF OnlyHandled
  <2>2. \A j \in Conn : Contains(v, j) => g.sc[j].acc = None /\ g.sc[j].link # "none"
    <3> SUFFICES ASSUME NEW j \in Conn, Contains(v, j)
                 PROVE  g.sc[j].acc = None /\ g.sc[j].link # "none"
      OBVIOUS
    <3>1. j # k /\ f2.sc[j].acc = None /\ f2.sc[j].link # "none"
      BY <1>2, <1>7 DEF InLists
    <3> QED BY <1>11, <3>1 DEF SameConn
  <2>3. \A j \in Conn : g.sc[j].next = f2.sc[j].next /\ g.sc[j].post = f2.sc[j].post
    BY <1>11
  <2> QED BY ONLY <1>7, <2>1, <2>2, <2>3, ListsSame
<1>24. Alive(g, c)
  BY <1>3, <1>14, <1>16 DEF Alive, SameClient
<1> QED BY <1>22, <1>23, <1>24 DEF c

\* A direct answer to a request that opens nothing changes no counters.
LEMMA DirectSame ==
    ASSUME NEW x \in AcceptConn, NEW cmd, cmd \notin {"watch", "multi", "subscribe"},
           cmd \in Blocking => ~x.block
    PROVE  SameAs(x, Responded(x, cmd, "err", TRUE))
<1> DEFINE y == Unblocked(x, cmd)
<1>1. \A b \in BOOLEAN :
         /\ cmd = "unwatch" =>
              Responded(x, cmd, "err", b) = IF "err" = "ok" THEN Unwatch(y) ELSE y
         /\ cmd \in {"exec", "discard"} =>
              Responded(x, cmd, "err", b) =
                 IF y.multi > 0 /\ ~b THEN DecrMulti(Unwatch(y)) ELSE y
         /\ cmd \notin {"watch", "multi", "unwatch", "exec", "discard", "subscribe"} =>
              Responded(x, cmd, "err", b) = y
  BY RespondedCases
<1>2. Apart(x, y) /\ y.block = (x.block /\ cmd \notin Blocking) /\ SameCounters(x, y)
  BY ChangesAre
<1>3. y.block = x.block
  <2>1. x.block \in BOOLEAN
    BY DEF AcceptConn
  <2>2. CASE cmd \in Blocking
    BY <1>2, <2>1, <2>2
  <2>3. CASE cmd \notin Blocking
    BY <1>2, <2>1, <2>3
  <2> QED BY <2>2, <2>3
<1> HIDE DEF y
<1>4. Responded(x, cmd, "err", TRUE) = y
  BY <1>1
<1> QED BY <1>2, <1>3, <1>4 DEF SameAs

\* An answer changes nothing but events and the request, if nobody's counters
\* change and the request is on no connection.
LEMMA AnsweredFits ==
    ASSUME NEW h, NEW s, Fit(h, s), NEW v, NEW w, InLists(h, v, w),
           NEW r \in Req, h.req[r].delivered \/ h.req[r].cmd \in Empty,
           \A j \in Conn : ~On(QueuesOf(h), j, r),
           NEW res, NEW direct, NEW g, Answered(h, g, r, res, direct),
           SameAs(h.cc[r[1]], Responded(h.cc[r[1]], h.req[r].cmd, res, direct))
    PROVE  /\ Fit(g, s) /\ InLists(g, v, w)
           /\ \A d \in Client : SameAs(h.cc[d], g.cc[d])
<1> DEFINE c == r[1]
           x == h.cc[c]
           cmd == h.req[r].cmd
           z == Responded(x, cmd, res, direct)
<1>1. State(h) /\ Known(h) /\ c \in Client /\ x \in AcceptConn
  BY Constants DEF Fit, Core, State
<1>2. /\ State(g) /\ g.sc = h.sc /\ g.idle = h.idle /\ g.postS = h.postS
      /\ g.req = [h.req EXCEPT ![r].res = res]
      /\ \A d \in Client : d # c => SameAs(h.cc[d], g.cc[d])
      /\ SameAs(z, g.cc[c]) /\ SameAs(x, z)
  BY DEF Answered
<1> HIDE DEF z
<1>3. \A d \in Client : SameAs(h.cc[d], g.cc[d])
  <2>1. SameAs(x, g.cc[c])
    BY <1>2, SameAsTrans
  <2> QED BY <1>2, <2>1
<1>4. /\ \A t \in Req : t # r => g.req[t] = h.req[t]
      /\ g.req[r].cmd = h.req[r].cmd /\ g.req[r].delivered = h.req[r].delivered
  BY <1>1, <1>2 DEF State, Request
<1>5. Known(g)
  <2> SUFFICES ASSUME NEW t \in Req
               PROVE  /\ g.req[t].cmd \in Uses[t[1]] \cup {"none", "submsg"}
                      /\ ~g.req[t].delivered /\ g.req[t].cmd \notin Empty => g.req[t].res = "none"
    BY DEF Known
  <2>1. CASE t = r
    BY <1>1, <1>4, <2>1 DEF Known
  <2>2. CASE t # r
    BY <1>1, <1>4, <2>2 DEF Known
  <2> QED BY <2>1, <2>2
<1>6. Like(h, g, QueuesOf(h))
  <2>1. \A d \in Client :
           /\ g.cc[d].open = h.cc[d].open /\ g.cc[d].conn = h.cc[d].conn
           /\ ReadOf(h.cc[d]) \subseteq ReadOf(g.cc[d])
           /\ g.cc[d].requests = h.cc[d].requests
           /\ g.cc[d].good = h.cc[d].good
           /\ g.cc[d].block = h.cc[d].block /\ SameCounters(h.cc[d], g.cc[d])
    BY <1>3 DEF SameAs, Apart, ReadOf
  <2>2. \A k \in Conn, t \in Req : On(QueuesOf(h), k, t) => g.req[t] = h.req[t]
    BY <1>4
  <2>3. \A t \in Req : t[1] \in Client
    BY Constants
  <2>4. \A k \in Conn : /\ g.sc[k].link = h.sc[k].link /\ g.sc[k].good = h.sc[k].good
                        /\ g.sc[k].acc = h.sc[k].acc
    BY <1>2
  <2>5. State(g)
    BY <1>2
  <2> QED BY ONLY <1>5, <2>1, <2>2, <2>3, <2>4, <2>5 DEF Like, Alive
<1>7. Fit(g, s)
  BY <1>2, <1>6, LikeFits
<1>8. InLists(g, v, w)
  <2>1. \A j \in Conn : Contains(v, j) => g.sc[j].acc = None /\ g.sc[j].link # "none"
    BY <1>2 DEF InLists
  <2> QED BY <1>2, <2>1, ListsSame
<1> QED BY <1>3, <1>7, <1>8

\* The proxy answers a request that opens nothing: nobody's counters change.
LEMMA DirectFits ==
    ASSUME NEW h, NEW s, Fit(h, s), NEW v, NEW w, InLists(h, v, w),
           NEW r \in Req, h.req[r].delivered \/ h.req[r].cmd \in Empty,
           \A j \in Conn : ~On(QueuesOf(h), j, r),
           h.req[r].cmd \notin {"watch", "multi", "subscribe"},
           h.req[r].cmd \in Blocking => ~h.cc[r[1]].block,
           NEW g, g = HandleResponse(h, None, r, "err")
    PROVE  /\ Fit(g, s) /\ InLists(g, v, w)
           /\ \A d \in Client : SameAs(h.cc[d], g.cc[d])
<1>1. State(h) /\ r[1] \in Client /\ h.cc[r[1]] \in AcceptConn
  BY Constants DEF Fit, Core, State
<1>2. None \notin Private /\ "err" \in Response
  BY Constants DEF Response
<1>3. CASE ~Heeded(h, r)
  <2>1. g = h
    BY <1>1, <1>2, <1>3, ResponseIs
  <2>2. \A d \in Client : SameAs(h.cc[d], h.cc[d])
    BY DEF SameAs, Apart, SameCounters, HasCounters
  <2> QED BY <2>1, <2>2
<1>4. CASE Heeded(h, r)
  <2>1. PICK e : Answered(h, e, r, "err", None = None) /\ g = PutBack(e, r[1], None)
    BY <1>1, <1>2, <1>4, ResponseIs
  <2>2. g = e
    BY <1>2, <2>1 DEF PutBack
  <2>3. (None = None) = TRUE
    OBVIOUS
  <2>4. Answered(h, g, r, "err", TRUE)
    BY <2>1, <2>2, <2>3
  <2>5. SameAs(h.cc[r[1]], Responded(h.cc[r[1]], h.req[r].cmd, "err", TRUE))
    BY <1>1, DirectSame
  <2> QED BY <2>4, <2>5, AnsweredFits
<1> QED BY <1>3, <1>4

\* What is on a connection was delivered.
LEMMA OnDelivered ==
    ASSUME NEW h, State(h), Delivered(h), NEW k \in Conn, NEW r \in Req, On(QueuesOf(h), k, r)
    PROVE  h.req[r].delivered
<1>1. h.sc[k].sent \in Seq(Req) /\ h.sc[k].send \in Seq(Req)
  BY DEF State, ConnectConn
<1>2. Contains(h.sc[k].sent \o h.sc[k].send, r)
  BY DEF On, QueuesOf
<1>3. Has(h, k, r)
  BY <1>1, <1>2, BothContain DEF Has
<1> QED BY <1>3 DEF Delivered

\* A request that its client still has, has been read.
LEMMA OwnRead ==
    ASSUME NEW h, Own(h), NEW r \in Req, Contains(h.cc[r[1]].requests, r), h.cc \in [Client -> AcceptConn]
    PROVE  r[2] \in ReadOf(h.cc[r[1]])
<1>1. r[1] \in Client
  BY Constants
<1>2. h.cc[r[1]].requests \in Seq(Req)
  BY <1>1 DEF AcceptConn
<1>3. PICK i \in 1..Len(h.cc[r[1]].requests) : h.cc[r[1]].requests[i] = r
  BY DEF Contains
<1>4. i \in DOMAIN h.cc[r[1]].requests
  BY <1>2, <1>3
<1> QED BY <1>1, <1>3, <1>4 DEF Own, ReadOf

\* However a request is handled.
LEMMA HandleRequestGood ==
    ASSUME Orderly, NEW h, NEW s, Good(h, s), NEW r \in Req, New(h, r), Alive(h, r[1])
    PROVE  \A g \in HandleRequest(h, r) : Good(g, s) /\ Alive(g, r[1])
<1> DEFINE c == r[1]
           cmd == h.req[r].cmd
           d == Delivering(h, r)
           q == QueuesOf(h)
<1>1. /\ HandlerInv(h, {}, Conn) /\ State(h) /\ Delivered(h) /\ Own(h) /\ GoodOpen(h)
      /\ Fit(h, s) /\ Known(h) /\ Counts(h, s, q) /\ c \in Client
  BY Constants DEF Good, Fit, Core, HandlerInv
<1>2. PICK v, w : InLists(h, v, w)
  BY DEF Good
<1> SUFFICES ASSUME NEW g \in HandleRequest(h, r) PROVE Good(g, s) /\ Alive(g, c)
  OBVIOUS
<1>3. HandlerInv(g, {}, Conn)
  BY <1>1, HandleRequestKeeps
<1>4. CASE h.cc[c].block
  <2>1. g = h
    BY <1>4 DEF HandleRequest
  <2> QED BY <2>1
<1>5. CASE ~h.cc[c].block
  <2>1. /\ State(d) /\ d.cc = h.cc /\ d.sc = h.sc /\ d.idle = h.idle /\ d.postS = h.postS
        /\ d.req = [h.req EXCEPT ![r].delivered = TRUE]
    <3>1. HandlerInv(d, {r}, Conn)
      BY <1>1, DeliveringKeeps
    <3> QED BY <1>1, <3>1 DEF Delivering, HandlerInv, State, Parts
  <2>2. g \in {HandleResponse(d, None, r, "err") : i \in Deniable \cap {cmd}}
              \cup IF InTransaction(h.cc[c]) /\ cmd = "subscribe"
                   THEN {PostA(HandleResponse(d, None, r, "err"), c, "Error")}
                   ELSE {IF e.conn = None \/ ~e.state.sc[e.conn].good
                         THEN HandleResponse(e.state, None, r, "err")
                         ELSE PostHandle(PostS([e.state EXCEPT !.sc[e.conn].send = Append(@, r)],
                                               e.conn, "Write"), r, e.conn) :
                           e \in GetConnection(d, c, cmd)}
    BY <1>5 DEF HandleRequest, Delivering
  <2> HIDE DEF d
  <2>3. /\ \A t \in Req : t # r => d.req[t] = h.req[t]
        /\ d.req[r].cmd = cmd /\ d.req[r].delivered /\ d.req[r].res = h.req[r].res
    BY <1>1, <2>1 DEF State, Request
  <2>4. Like(h, d, q)
    <3>1. Known(d)
      <4> SUFFICES ASSUME NEW t \in Req
                   PROVE  /\ d.req[t].cmd \in Uses[t[1]] \cup {"none", "submsg"}
                          /\ ~d.req[t].delivered /\ d.req[t].cmd \notin Empty => d.req[t].res = "none"
        BY DEF Known
      <4>1. CASE t = r
        BY <1>1, <2>3, <4>1 DEF Known
      <4>2. CASE t # r
        BY <1>1, <2>3, <4>2 DEF Known
      <4> QED BY <4>1, <4>2
    <3>2. \A x \in Client : SameCounters(h.cc[x], h.cc[x])
      BY DEF SameCounters, HasCounters
    <3>3. \A t \in Req : d.req[t].cmd = h.req[t].cmd /\ d.req[t].res = h.req[t].res
      BY <2>3
    <3> QED BY ONLY <2>1, <3>1, <3>2, <3>3 DEF Like, Alive
  <2>5. Fit(d, s)
    BY <1>1, <2>1, <2>4, LikeFits
  <2>6. InLists(d, v, w)
    <3>1. \A j \in Conn : Contains(v, j) => d.sc[j].acc = None /\ d.sc[j].link # "none"
      BY <1>2, <2>1 DEF InLists
    <3> QED BY <1>2, <2>1, <3>1, ListsSame
  <2>7. QueuesOf(d) = q
    BY <2>1, QueuesSame
  <2>8. \A j \in Conn : ~On(QueuesOf(d), j, r)
    BY <1>1, <2>7, OnDelivered DEF New
  <2>9. GoodOpen(d)
    BY <1>1, <2>1 DEF GoodOpen
  <2>10. ASSUME cmd \in Deniable, g = HandleResponse(d, None, r, "err")
         PROVE  Good(g, s) /\ Alive(g, c)
    <3>1. cmd \notin {"watch", "multi", "subscribe"}
      BY <2>10 DEF Orderly
    <3>2. /\ Fit(g, s) /\ InLists(g, v, w)
          /\ \A x \in Client : SameAs(d.cc[x], g.cc[x])
      BY <1>5, <2>1, <2>3, <2>5, <2>6, <2>8, <2>10, <3>1, DirectFits
    <3>3. Alive(g, c)
      BY <1>1, <2>1, <3>2 DEF Alive, SameAs, Apart
    <3> QED BY <1>3, <3>2, <3>3 DEF Good
  <2>11. ASSUME NEW e \in GetConnection(d, c, cmd),
                g = IF e.conn = None \/ ~e.state.sc[e.conn].good
                    THEN HandleResponse(e.state, None, r, "err")
                    ELSE PostHandle(PostS([e.state EXCEPT !.sc[e.conn].send = Append(@, r)],
                                          e.conn, "Write"), r, e.conn)
         PROVE  Good(g, s) /\ Alive(g, c)
    <3> DEFINE f == e.state
               k == e.conn
    <3>1. Gotten(d, f, s, c, cmd, k)
      BY <1>1, <2>5, <2>6, <2>9, <2>11, GotIs
    <3>2. Gives(d, e)
      BY <1>1, <2>1, <2>9, <2>11, GetConnectionGives
    <3>3. GoodOpen(f) /\ QueuesOf(f) = QueuesOf(d)
      BY <3>2, QueuesSame DEF Gives, Gets
    <3>4. k \in Conn /\ f.sc[k].good /\ k # None
      BY <3>1, Constants DEF Gotten
    <3>5. Enqueued(f, g, k, r)
      BY <2>11, <3>4 DEF Enqueued
    <3>6. /\ Alive(d, c) /\ ~d.cc[c].block /\ Contains(d.cc[c].requests, r)
          /\ r[2] \in ReadOf(d.cc[c])
          /\ d.req[r].cmd \in Empty \/ d.req[r].res = "none"
      <4>1. r[2] \in ReadOf(h.cc[c])
        BY <1>1, OwnRead DEF New, State
      <4>2. cmd \in Empty \/ h.req[r].res = "none"
        BY <1>1 DEF New, Known
      <4> QED BY <1>5, <2>1, <2>3, <4>1, <4>2 DEF New, Alive
    <3>7. \A j \in Conn : ~On(QueuesOf(f), j, r)
      BY <2>8, <3>3
    <3>8. Gotten(d, f, s, c, d.req[r].cmd, k)
      BY <2>3, <3>1
    <3> HIDE DEF f, k
    <3>9. Fit(g, s) /\ (\E a, b : InLists(g, a, b)) /\ Alive(g, c)
      BY <3>3, <3>4, <3>5, <3>6, <3>7, <3>8, EnqueueFits
    <3> QED BY <1>3, <3>9 DEF Good
  <2>12. ~(InTransaction(h.cc[c]) /\ cmd = "subscribe")
    <3> SUFFICES ASSUME cmd = "subscribe" PROVE ~InTransaction(h.cc[c])
      OBVIOUS
    <3>1. "subscribe" \in Uses[c]
      BY <1>1 DEF Known
    <3>2. OneUse(h.cc[c], c)
      BY <1>1 DEF Counts
    <3> QED BY <3>1, <3>2 DEF OneUse, InTransaction
  <2> QED BY <2>2, <2>10, <2>11, <2>12
<1> QED BY <1>4, <1>5

-----------------------------------------------------------------------------
(* The actions of the clients.                                             *)

\* The invariant of the specification: what Good adds to that of SessionProofs.
Suits == Fit(Handler, session) /\ \E v, w : InLists(Handler, v, w)

\* What has the same parts, but for the list of the clients, is as good.
LEMMA FitSame ==
    ASSUME NEW h, NEW s, Fit(h, s), NEW g, DOMAIN g = Parts, g.cc = h.cc, g.sc = h.sc,
           g.idle = h.idle, g.req = h.req, g.postS = h.postS, g.postA \in Seq(Client)
    PROVE  /\ Fit(g, s)
           /\ \A v, w : InLists(h, v, w) => InLists(g, v, w)
<1>1. State(g) /\ Known(h)
  BY DEF Fit, Core, State
<1>2. Like(h, g, QueuesOf(h))
  BY <1>1, LikeSame
<1>3. Fit(g, s)
  BY <1>2, LikeFits
<1>4. \A v, w : InLists(h, v, w) => InLists(g, v, w)
  <2> SUFFICES ASSUME NEW v, NEW w, InLists(h, v, w) PROVE InLists(g, v, w)
    OBVIOUS
  <2>1. \A j \in Conn : Contains(v, j) => g.sc[j].acc = None /\ g.sc[j].link # "none"
    BY DEF InLists
  <2> QED BY <2>1, ListsSame
<1> QED BY <1>3, <1>4

\* The handler becomes what it is said to become.
LEMMA BecomesSuits ==
    ASSUME NEW h, NEW s, Fit(h, s), NEW v, NEW w, InLists(h, v, w), Becomes(h), session' = s
    PROVE  Suits'
<1> DEFINE g == Handler'
<1>1. /\ DOMAIN g = Parts /\ g.cc = h.cc /\ g.sc = h.sc /\ g.idle = h.idle
      /\ g.req = h.req /\ g.postA = h.postA /\ g.postS = h.postS
  BY DEF Handler, Becomes, Parts
<1>2. Suits' <=> Fit(g, s) /\ \E a, b : InLists(g, a, b)
  BY DEF Suits
<1>3. h.postA \in Seq(Client)
  BY DEF Fit, Core, State
<1> HIDE DEF g
<1> QED BY <1>1, <1>2, <1>3, FitSame

\* A request arrives: it is on no connection yet.
LEMMA ArriveFits ==
    ASSUME NEW h, NEW s, Fit(h, s), HandlerInv(h, {}, Conn), NEW c \in Client, h.cc[c].open,
           NEW n, NEW r \in Req, NEW cmd \in Uses[c] \cup {"submsg"}, NEW x, NEW g,
           Arrives(h, g, c, n, r, cmd, x), x.conn = h.cc[c].conn, SameCounters(h.cc[c], x)
    PROVE  /\ Fit(g, s) /\ QueuesOf(g) = QueuesOf(h)
           /\ \A j \in Conn : ~On(QueuesOf(g), j, r)
           /\ \A v, w : InLists(h, v, w) => InLists(g, v, w)
<1> DEFINE q == QueuesOf(h)
<1>1. /\ State(h) /\ Known(h) /\ Unread(h) /\ Pending(h, q) /\ h.cc[c] \in AcceptConn
      /\ h.cc \in [Client -> AcceptConn] /\ h.req \in [Req -> Request]
  BY DEF Fit, Core, State, HandlerInv
<1>2. HandlerInv(g, {r}, Conn)
  BY ArriveKeeps
<1>3. State(g)
  BY <1>2 DEF HandlerInv
<1>4. /\ x.requests = Append(h.cc[c].requests, r) /\ x.open = h.cc[c].open
      /\ x.good = h.cc[c].good /\ x.block = h.cc[c].block /\ r[1] = c /\ r[2] = n
      /\ g.cc = [h.cc EXCEPT ![c] = x] /\ g.req = [h.req EXCEPT ![r].cmd = cmd]
      /\ g.sc = h.sc /\ g.idle = h.idle /\ g.postS = h.postS
  BY DEF Arrives
<1>5. /\ MaxReq \in Nat /\ h.cc[c].parsed \in 0..MaxReq /\ h.cc[c].messages \in Nat
      /\ h.cc[c].requests \in Seq(Req)
  BY <1>1, RequestsAre
<1>6. n \notin ReadOf(h.cc[c]) /\ ReadOf(h.cc[c]) \subseteq ReadOf(x)
  <2> DEFINE m == h.cc[c].messages
             p == h.cc[c].parsed
  <2>1. \/ n = p + 1 /\ n \in 1..MaxReq /\ x.parsed = p + 1 /\ x.messages = m
        \/ n = MaxReq + m + 1 /\ x.parsed = p /\ x.messages = m + 1
    BY DEF Arrives
  <2>2. ReadOf(h.cc[c]) = (1..p) \cup (MaxReq + 1..MaxReq + m)
    BY DEF ReadOf
  <2>3. MaxReq \in Nat /\ p \in 0..MaxReq /\ m \in Nat
    BY <1>5
  <2>4. ReadOf(x) = (1..x.parsed) \cup (MaxReq + 1..MaxReq + x.messages)
    BY DEF ReadOf
  <2> HIDE DEF m, p
  <2> QED BY ONLY <2>1, <2>2, <2>3, <2>4
<1>7. \A j \in Conn : ~On(q, j, r)
  BY <1>1, <1>4, <1>6 DEF Pending
<1>8. QueuesOf(g) = q
  BY <1>4, QueuesSame
<1>9. /\ \A t \in Req : t # r => g.req[t] = h.req[t]
      /\ g.req[r].cmd = cmd /\ g.req[r].delivered = h.req[r].delivered
      /\ g.req[r].res = h.req[r].res
  BY <1>1, <1>4 DEF Request
<1>10. Known(g)
  <2> SUFFICES ASSUME NEW t \in Req
               PROVE  /\ g.req[t].cmd \in Uses[t[1]] \cup {"none", "submsg"}
                      /\ ~g.req[t].delivered /\ g.req[t].cmd \notin Empty => g.req[t].res = "none"
    BY DEF Known
  <2>1. CASE t = r
    <3>1. cmd \in Empty \/ h.req[r].res = "none"
      <4>1. CASE n = h.cc[c].parsed + 1 /\ n \in 1..MaxReq
        <5>1. n \in h.cc[c].parsed + 1..MaxReq
          BY <1>5, <4>1
        <5> QED BY <1>1, <1>4, <5>1 DEF Unread
      <4>2. CASE cmd = "submsg"
        BY <4>2 DEF Empty
      <4> QED BY <4>1, <4>2 DEF Arrives
    <3> QED BY <1>4, <1>9, <2>1, <3>1
  <2>2. CASE t # r
    BY <1>1, <1>9, <2>2 DEF Known
  <2> QED BY <2>1, <2>2
<1>11. \A d \in Client : g.cc[d] = IF d = c THEN x ELSE h.cc[d]
  BY <1>1, <1>4
<1>12. Like(h, g, q)
  <2>1. \A d \in Client :
           /\ g.cc[d].open = h.cc[d].open /\ g.cc[d].conn = h.cc[d].conn
           /\ ReadOf(h.cc[d]) \subseteq ReadOf(g.cc[d])
           /\ ~h.cc[d].open => g.cc[d].requests = h.cc[d].requests
           /\ g.cc[d].good = h.cc[d].good
           /\ g.cc[d].block = h.cc[d].block /\ SameCounters(h.cc[d], g.cc[d])
    <3>1. \A d \in Client : SameCounters(h.cc[d], h.cc[d])
      BY DEF SameCounters, HasCounters
    <3> QED BY <1>4, <1>6, <1>11, <3>1
  <2>2. \A k \in Conn, t \in Req : On(q, k, t) => g.req[t] = h.req[t]
    BY <1>7, <1>9
  <2>3. \A t \in Req : t[1] \in Client /\ (Contains(h.cc[t[1]].requests, t) =>
                                           Contains(g.cc[t[1]].requests, t))
    <3> SUFFICES ASSUME NEW t \in Req, Contains(h.cc[t[1]].requests, t)
                 PROVE  Contains(g.cc[t[1]].requests, t)
      BY Constants
    <3>1. CASE t[1] = c
      <4>1. Contains(Append(h.cc[c].requests, r), t)
        BY <1>5, <3>1, AppendProperties DEF Contains
      <4> QED BY <1>4, <1>11, <3>1, <4>1
    <3>2. CASE t[1] # c
      BY <1>11, <3>2, Constants
    <3> QED BY <3>1, <3>2
  <2>4. \A k \in Conn : /\ g.sc[k].link = h.sc[k].link /\ g.sc[k].good = h.sc[k].good
                        /\ g.sc[k].acc = h.sc[k].acc
    BY <1>4
  <2> QED BY ONLY <1>3, <1>10, <2>1, <2>2, <2>3, <2>4 DEF Like, Alive
<1>13. Fit(g, s)
  BY <1>4, <1>12, LikeFits
<1>14. \A v, w : InLists(h, v, w) => InLists(g, v, w)
  <2> SUFFICES ASSUME NEW v, NEW w, InLists(h, v, w) PROVE InLists(g, v, w)
    OBVIOUS
  <2>1. \A j \in Conn : Contains(v, j) => g.sc[j].acc = None /\ g.sc[j].link # "none"
    BY <1>4 DEF InLists
  <2> QED BY <1>4, <2>1, ListsSame
<1> QED BY <1>7, <1>8, <1>13, <1>14

\* A client sends a request.
LEMMA ReadSuits ==
    ASSUME Orderly, Held, Suits, NEW c \in Client, NEW cmd \in Uses[c], Read(c, cmd)
    PROVE  Suits'
<1> DEFINE n == cc[c].parsed + 1
           r == <<c, n>>
           x == [cc[c] EXCEPT !.parsed = n, !.requests = Append(cc[c].requests, r)]
           h == [Handler EXCEPT !.cc[c].parsed = @ + 1,
                                !.cc[c].requests = Append(@, r),
                                !.req[r].cmd = cmd]
<1>1. /\ Parsed < MaxReq /\ Live(c) /\ session' = session
      /\ \/ cmd = "unknown" /\ Becomes(HandleResponse(h, None, r, "err"))
         \/ \E g \in HandleRequest(h, r) : Becomes(g)
  BY DEF Read
<1>2. HandlerInv(Handler, {}, Conn) /\ State(Handler) /\ Fit(Handler, session)
  BY DEF Held, HandlerInv, Suits
<1>3. /\ cc \in [Client -> AcceptConn] /\ cc[c] \in AcceptConn
      /\ cc[c].requests \in Seq(Req) /\ cc[c].parsed \in 0..MaxReq /\ MaxReq \in Nat
  BY <1>2, Fields, RequestsAre DEF State
<1>4. n \in 1..MaxReq
  BY <1>1, <1>3, ParsedBound
<1>5. r \in Req
  BY <1>4, SessionAssumption DEF Req
<1>6. cmd \in Command
  BY SessionAssumption
<1>7. /\ DOMAIN h = Parts /\ h.cc = [cc EXCEPT ![c] = x]
      /\ h.req = [req EXCEPT ![r].cmd = cmd] /\ h.sc = sc /\ h.idle = idle
      /\ h.postA = postA /\ h.postS = postS
  <2> HIDE DEF n, r
  <2>1. cc[c].parsed + 1 = n
    BY DEF n
  <2> QED BY <1>3, <2>1 DEF Handler, Parts, AcceptConn
<1>8. /\ x \in AcceptConn /\ x.parsed = n /\ x.requests = Append(cc[c].requests, r)
      /\ x.messages = cc[c].messages /\ x.open = cc[c].open /\ x.good = cc[c].good
      /\ x.block = cc[c].block /\ x.conn = cc[c].conn /\ SameCounters(cc[c], x)
  <2>1. n \in 0..MaxReq /\ Append(cc[c].requests, r) \in Seq(Req)
    BY <1>3, <1>4, <1>5
  <2> HIDE DEF n, r
  <2> QED BY <1>3, <2>1 DEF AcceptConn, SameCounters, HasCounters
<1> HIDE DEF h, x
<1>9. Arrives(Handler, h, c, n, r, cmd, x)
  <2>1. n = cc[c].parsed + 1 /\ r = <<c, n>>
    OBVIOUS
  <2> HIDE DEF n, r
  <2>2. /\ n = Handler.cc[c].parsed + 1 /\ n \in 1..MaxReq
        /\ x.parsed = n /\ x.messages = Handler.cc[c].messages
        /\ x.requests = Append(Handler.cc[c].requests, r) /\ x.open = Handler.cc[c].open
        /\ x.good = Handler.cc[c].good /\ x.block = Handler.cc[c].block
        /\ x \in AcceptConn /\ cmd \in Command \cup {"submsg"}
    BY <1>4, <1>6, <1>8, <2>1, Fields
  <2>3. /\ DOMAIN h = Parts /\ h.cc = [Handler.cc EXCEPT ![c] = x]
        /\ h.req = [Handler.req EXCEPT ![r].cmd = cmd] /\ h.sc = Handler.sc
        /\ h.idle = Handler.idle /\ h.postA = Handler.postA /\ h.postS = Handler.postS
    BY <1>7, Fields
  <2> QED BY <2>1, <2>2, <2>3 DEF Arrives
<1>10. r[1] = c
  OBVIOUS
<1> HIDE DEF r, n
<1>11. /\ Contains(h.cc[c].requests, r) /\ h.req[r].cmd = cmd
       /\ ~h.req[r].delivered /\ HandlerInv(h, {}, Conn)
  <2>1. HandlerInv(Handler, {}, Conn)
    BY <1>2
  <2>2. /\ Contains(h.cc[c].requests, r) /\ n \notin h.cc[c].parsed + 1..MaxReq
        /\ n \in 1..MaxReq => ~h.req[r].delivered /\ HandlerInv(h, {}, Conn)
    BY ONLY <1>5, <1>9, <2>1, c \in Client, ArriveKeeps
  <2>3. req \in [Req -> Request]
    BY <1>2, Fields DEF State
  <2>4. h.req[r].cmd = cmd
    BY ONLY <1>5, <1>7, <2>3 DEF Request
  <2> QED BY ONLY <1>4, <2>2, <2>4
<1>12. /\ Fit(h, session) /\ \A j \in Conn : ~On(QueuesOf(h), j, r)
       /\ \A v, w : InLists(Handler, v, w) => InLists(h, v, w)
  <2>1. Handler.cc[c].open /\ x.conn = Handler.cc[c].conn /\ SameCounters(Handler.cc[c], x)
    BY <1>1, <1>8, Fields DEF Live
  <2>2. cmd \in Uses[c] \cup {"submsg"}
    OBVIOUS
  <2> QED BY ONLY <1>2, <1>5, <1>9, <2>1, <2>2, c \in Client, ArriveFits
<1>13. PICK v, w : InLists(h, v, w)
  BY <1>12 DEF Suits
<1>14. Alive(h, c)
  <2>1. h.cc[c] = x
    BY <1>3, <1>7
  <2> QED BY <1>1, <1>8, <2>1 DEF Alive, Live
<1>15. CASE cmd = "unknown" /\ Becomes(HandleResponse(h, None, r, "err"))
  <2>1. h.req[r].cmd \in Empty /\ cmd \notin Blocking /\ cmd \notin {"watch", "multi", "subscribe"}
    BY <1>11, <1>15 DEF Empty, Blocking
  <2> DEFINE g == HandleResponse(h, None, r, "err")
  <2>2. g = HandleResponse(h, None, r, "err") /\ Becomes(g)
    BY <1>15
  <2> HIDE DEF g
  <2>3. Fit(g, session) /\ InLists(g, v, w)
    BY ONLY <1>5, <1>11, <1>12, <1>13, <2>1, <2>2, DirectFits
  <2> QED BY <1>1, <2>2, <2>3, BecomesSuits
<1>16. CASE \E g \in HandleRequest(h, r) : Becomes(g)
  <2>1. PICK g \in HandleRequest(h, r) : Becomes(g)
    BY <1>16
  <2>2. New(h, r)
    BY <1>10, <1>11 DEF New
  <2>3. Good(h, session)
    BY <1>11, <1>12, <1>13 DEF Good
  <2>4. Good(g, session)
    BY <1>5, <1>10, <1>14, <2>1, <2>2, <2>3, HandleRequestGood
  <2> QED BY <1>1, <2>1, <2>4, BecomesSuits DEF Good
<1> QED BY <1>1, <1>15, <1>16

\* A client goes wrong.
LEMMA ClientErrorSuits ==
    ASSUME Suits, NEW c \in Client, ClientError(c)
    PROVE  Suits'
<1> DEFINE x == [cc[c] EXCEPT !.good = FALSE]
           h == [Handler EXCEPT !.cc[c].good = FALSE]
           g == PostA(h, c, "Error")
<1>1. Becomes(g) /\ session' = session
  BY DEF ClientError
<1>2. State(Handler) /\ Fit(Handler, session) /\ Known(Handler)
  BY DEF Suits, Fit, Core
<1>3. PICK v, w : InLists(Handler, v, w)
  BY DEF Suits
<1>4. cc[c] \in AcceptConn /\ cc \in [Client -> AcceptConn]
  BY <1>2, Fields DEF State
<1>5. /\ x \in AcceptConn /\ x.open = cc[c].open /\ ~x.good /\ x.requests = cc[c].requests
      /\ x.parsed = cc[c].parsed /\ x.messages = cc[c].messages /\ x.conn = cc[c].conn
  BY <1>4 DEF AcceptConn
<1>6. /\ DOMAIN h = Parts /\ h.cc = [cc EXCEPT ![c] = x]
      /\ h.req = req /\ h.sc = sc /\ h.idle = idle /\ h.postA = postA /\ h.postS = postS
  BY <1>4 DEF Handler, Parts
<1> HIDE DEF h, x
<1>7. State(h)
  BY <1>2, <1>5, <1>6, Fields DEF State
<1>8. OnlyClientEvents(h, g)
  BY <1>7, PostAIs DEF Event
<1> HIDE DEF g
<1>9. /\ State(g) /\ g.sc = sc /\ g.idle = idle /\ g.req = req /\ g.postS = postS
  BY <1>6, <1>8 DEF OnlyClientEvents
<1>10. \A d \in Client :
          /\ g.cc[d].open = cc[d].open /\ g.cc[d].conn = cc[d].conn
          /\ ReadOf(g.cc[d]) = ReadOf(cc[d]) /\ g.cc[d].requests = cc[d].requests
          /\ d # c => SameAs(cc[d], g.cc[d])
          /\ d = c => ~g.cc[d].good
  <2> SUFFICES ASSUME NEW d \in Client
               PROVE  /\ g.cc[d].open = cc[d].open /\ g.cc[d].conn = cc[d].conn
                      /\ ReadOf(g.cc[d]) = ReadOf(cc[d]) /\ g.cc[d].requests = cc[d].requests
                      /\ d # c => SameAs(cc[d], g.cc[d])
                      /\ d = c => ~g.cc[d].good
    OBVIOUS
  <2>1. SameAs(h.cc[d], g.cc[d])
    BY <1>8 DEF OnlyClientEvents
  <2>2. h.cc[d] = IF d = c THEN x ELSE cc[d]
    BY <1>4, <1>6
  <2> QED BY <1>5, <2>1, <2>2 DEF SameAs, Apart, ReadOf
<1>11. Like(Handler, g, QueuesOf(Handler))
  <2>1. Known(g)
    BY <1>2, <1>9, Fields DEF Known
  <2>2. \A t \in Req : t[1] \in Client
    BY Constants
  <2> QED BY <1>9, <1>10, <2>1, <2>2, Fields DEF Like, Alive, SameAs, Apart
<1>12. Fit(g, session)
  BY <1>2, <1>9, <1>11, Fields, LikeFits
<1>13. InLists(g, v, w)
  <2>1. \A j \in Conn : Contains(v, j) => g.sc[j].acc = None /\ g.sc[j].link # "none"
    BY <1>3, <1>9, Fields DEF InLists
  <2> QED BY <1>3, <1>9, <2>1, Fields, ListsSame
<1> QED BY <1>1, <1>12, <1>13, BecomesSuits

\* A message is published to a client: it has a subscription, so that the
\* connection is not put back.
LEMMA ReadMessageSuits ==
    ASSUME Held, Suits, NEW k \in Conn, ReadMessage(k)
    PROVE  Suits'
<1> DEFINE c == sc[k].acc
           n == MaxReq + cc[c].messages + 1
           r == <<c, n>>
           x == [cc[c] EXCEPT !.messages = @ + 1, !.requests = Append(cc[c].requests, r)]
           h == [Handler EXCEPT !.cc[c].messages = @ + 1,
                                !.cc[c].requests = Append(@, r),
                                !.req[r].cmd = "submsg"]
           g == HandleResponse(h, k, r, "data")
<1>1. /\ c # None /\ cc[c].messages < MaxMsg /\ Becomes(g) /\ InSub(cc[c]) /\ session' = session
  BY DEF ReadMessage
<1>2. /\ HandlerInv(Handler, {}, Conn) /\ State(Handler) /\ Fit(Handler, session)
      /\ Attached(Handler)
  BY DEF Held, HandlerInv, Suits, Fit, Core
<1>3. c \in Client
  BY <1>1, <1>2, Fields DEF State, ConnectConn
<1>4. cc[c].open
  <2>1. cc[c].conn = k /\ k # None
    BY <1>2, <1>3, Fields, Constants DEF Attached
  <2> QED BY <1>2, <1>3, <2>1, Fields DEF Attached
<1> HIDE DEF c
<1>5. /\ cc \in [Client -> AcceptConn] /\ cc[c] \in AcceptConn
      /\ cc[c].requests \in Seq(Req) /\ cc[c].messages \in Nat /\ MaxReq \in Nat
  BY <1>2, <1>3, Fields, RequestsAre DEF State
<1>6. MaxMsg \in Nat /\ cc[c].messages + 1 \in 0..MaxMsg /\ n \in 1..MaxReq + MaxMsg
  <2> DEFINE m == cc[c].messages
  <2>1. MaxMsg \in Nat
    BY SessionAssumption
  <2>2. m \in Nat /\ m < MaxMsg /\ MaxReq \in Nat
    BY <1>1, <1>5
  <2> HIDE DEF m
  <2>3. m + 1 \in 0..MaxMsg /\ MaxReq + m + 1 \in 1..MaxReq + MaxMsg
    BY <2>1, <2>2
  <2> QED BY <2>1, <2>3 DEF m
<1>7. r \in Req /\ r[1] = c
  BY <1>3, <1>6 DEF Req
<1>8. /\ DOMAIN h = Parts /\ h.cc = [cc EXCEPT ![c] = x]
      /\ h.req = [req EXCEPT ![r].cmd = "submsg"] /\ h.sc = sc /\ h.idle = idle
      /\ h.postA = postA /\ h.postS = postS
  <2> HIDE DEF n, r
  <2> QED BY <1>3, <1>5 DEF Handler, Parts, AcceptConn
<1>9. /\ x \in AcceptConn /\ x.messages = cc[c].messages + 1
      /\ x.requests = Append(cc[c].requests, r)
      /\ x.parsed = cc[c].parsed /\ x.open = cc[c].open /\ x.good = cc[c].good
      /\ x.block = cc[c].block /\ x.conn = cc[c].conn /\ SameCounters(cc[c], x)
  <2>1. Append(cc[c].requests, r) \in Seq(Req)
    BY <1>5, <1>7
  <2> HIDE DEF n, r
  <2> QED BY <1>5, <1>6, <2>1 DEF AcceptConn, SameCounters, HasCounters
<1> HIDE DEF h, x
<1>10. Arrives(Handler, h, c, n, r, "submsg", x)
  <2>1. n = MaxReq + cc[c].messages + 1 /\ r = <<c, n>> /\ "submsg" \in Command \cup {"submsg"}
    OBVIOUS
  <2> HIDE DEF n, r
  <2>2. /\ n = MaxReq + Handler.cc[c].messages + 1
        /\ x.parsed = Handler.cc[c].parsed /\ x.messages = Handler.cc[c].messages + 1
        /\ x.requests = Append(Handler.cc[c].requests, r) /\ x.open = Handler.cc[c].open
        /\ x.good = Handler.cc[c].good /\ x.block = Handler.cc[c].block
        /\ x \in AcceptConn
    BY <1>9, <2>1, Fields
  <2>3. /\ DOMAIN h = Parts /\ h.cc = [Handler.cc EXCEPT ![c] = x]
        /\ h.req = [Handler.req EXCEPT ![r].cmd = "submsg"] /\ h.sc = Handler.sc
        /\ h.idle = Handler.idle /\ h.postA = Handler.postA /\ h.postS = Handler.postS
    BY <1>8, Fields
  <2> QED BY <2>1, <2>2, <2>3 DEF Arrives
<1> HIDE DEF r, n
<1>11. h.req[r].cmd = "submsg"
  <2>1. HandlerInv(Handler, {}, Conn) /\ r \in Req
    BY <1>2, <1>7
  <2>2. HandlerInv(h, {r}, Conn) /\ h.req[r].cmd = "submsg"
    BY ONLY <1>3, <1>10, <2>1, ArriveKeeps
  <2> QED BY ONLY <2>2
<1>12. /\ Fit(h, session) /\ \A j \in Conn : ~On(QueuesOf(h), j, r)
       /\ \A v, w : InLists(Handler, v, w) => InLists(h, v, w)
  <2>1. Handler.cc[c].open /\ x.conn = Handler.cc[c].conn /\ SameCounters(Handler.cc[c], x)
    BY <1>4, <1>9, Fields
  <2>2. "submsg" \in Uses[c] \cup {"submsg"}
    OBVIOUS
  <2> QED BY ONLY <1>2, <1>3, <1>7, <1>10, <2>1, <2>2, ArriveFits
<1>13. PICK v, w : InLists(h, v, w)
  BY <1>12 DEF Suits
<1>14. State(h) /\ h.cc[c] = x
  BY <1>3, <1>5, <1>8, <1>12 DEF Fit, Core
<1>15. Fit(g, session) /\ InLists(g, v, w)
  <2>1. CASE ~Heeded(h, r)
    BY <1>7, <1>12, <1>13, <1>14, <2>1, ResponseIs DEF Response
  <2>2. CASE Heeded(h, r)
    <3>1. PICK e : Answered(h, e, r, "data", k = None) /\ g = PutBack(e, c, k)
      BY <1>7, <1>14, <2>2, ResponseIs DEF Response
    <3>2. SameAs(h.cc[c], Responded(h.cc[c], "submsg", "data", k = None))
      <4> DEFINE y == Unblocked(x, "submsg")
      <4>1. \A b \in BOOLEAN : Responded(x, "submsg", "data", b) = y
        BY RespondedCases
      <4>2. "submsg" \notin Blocking /\ x.block \in BOOLEAN /\ (k = None) \in BOOLEAN
        BY <1>9 DEF Blocking, AcceptConn
      <4>3. /\ Apart(x, y) /\ SameCounters(x, y)
            /\ \A cmd : cmd = "submsg" => y.block = (x.block /\ cmd \notin Blocking)
        BY <1>9, ChangesAre
      <4>4. SameAs(x, y)
        <5>1. y.block = x.block
          BY <4>2, <4>3
        <5> QED BY <4>3, <5>1 DEF SameAs
      <4> HIDE DEF y
      <4> QED BY <1>14, <4>1, <4>2, <4>4
    <3>3. /\ Fit(e, session) /\ InLists(e, v, w)
          /\ \A d \in Client : SameAs(h.cc[d], e.cc[d])
      BY <1>7, <1>11, <1>12, <1>13, <3>1, <3>2, AnsweredFits DEF Empty
    <3>4. Holds(e.cc[c])
      <4>1. SameCounters(x, e.cc[c])
        BY <1>3, <1>14, <3>3 DEF SameAs
      <4>2. Holds(cc[c])
        BY <1>1 DEF Holds
      <4> QED BY <1>9, <4>1, <4>2, SameHolds
    <3>5. g = e
      BY <3>1, <3>4 DEF PutBack
    <3> QED BY <3>3, <3>5
  <2> QED BY <2>1, <2>2
<1> HIDE DEF g
<1> QED BY <1>1, <1>15, BecomesSuits

\* After n requests were delivered the others are new still; s are the sessions.
GoodSoFar(s, q, n, hs) ==
    \A g \in hs : Good(g, s) /\ \A i \in n + 1..Len(q) : New(g, q[i]) /\ Alive(g, q[i][1])

\* GoodSoFar with the parameters of a fold.
GoodFold(s, y, b, q, n, hs) == GoodSoFar(s, q, n, hs)

\* It holds after all of them, by induction.
GoodAll == INSTANCE LeftFold WITH Op <- FoldStep, P <- GoodFold

\* Requests are delivered in turn.
LEMMA DeliverGood ==
    ASSUME Orderly, NEW h, NEW s, Good(h, s), NEW q \in Seq(Req),
           \A i \in 1..Len(q) : New(h, q[i]) /\ Alive(h, q[i][1]),
           \A i, j \in 1..Len(q) : q[i] = q[j] => i = j
    PROVE  \A g \in DeliverEach(h, q) : Good(g, s)
<1>1. GoodSoFar(s, q, 0, {h})
  BY DEF GoodSoFar
<1>2. ASSUME NEW n \in 1..Len(q), NEW hs, GoodSoFar(s, q, n - 1, hs)
      PROVE  GoodSoFar(s, q, n, DeliverStep(hs, q[n]))
  <2> DEFINE r == q[n]
  <2>1. r \in Req
    OBVIOUS
  <2>2. SUFFICES ASSUME NEW g \in hs, NEW e \in HandleRequest(g, r)
                 PROVE  /\ Good(e, s)
                        /\ \A i \in n + 1..Len(q) : New(e, q[i]) /\ Alive(e, q[i][1])
    BY DEF GoodSoFar, DeliverStep
  <2>3. Good(g, s) /\ \A i \in n..Len(q) : New(g, q[i]) /\ Alive(g, q[i][1])
    <3>1. (n - 1) + 1 = n
      OBVIOUS
    <3> QED BY <1>2, <2>2, <3>1 DEF GoodSoFar
  <2>4. New(g, r) /\ Alive(g, r[1])
    <3>1. n \in n..Len(q)
      OBVIOUS
    <3> QED BY <2>3, <3>1
  <2>5. Good(e, s)
    BY <2>1, <2>2, <2>3, <2>4, HandleRequestGood
  <2>6. Passed(g, e, r)
    BY <2>1, <2>2, <2>3, <2>4, HandleRequestKeeps DEF Good
  <2>7. ASSUME NEW i \in n + 1..Len(q)
        PROVE  New(e, q[i]) /\ Alive(e, q[i][1])
    <3>1. i \in n..Len(q) /\ i \in 1..Len(q) /\ i # n
      OBVIOUS
    <3>2. q[i] \in Req /\ q[i] # r /\ q[i][1] \in Client
      BY <3>1, Constants
    <3>3. New(g, q[i]) /\ Alive(g, q[i][1])
      BY <2>3, <3>1
    <3> QED BY <2>6, <3>2, <3>3 DEF Passed, SameClients, SameClient, New, Alive
  <2> QED BY <2>5, <2>7
<1> DEFINE D == GoodAll!Fold(s, 0, {h}, q)
<1>3. GoodFold(s, 0, {h}, q, Len(q), D)
  <2>1. GoodFold(s, 0, {h}, q, 0, {h})
    BY <1>1 DEF GoodFold
  <2>2. \A n \in 1..Len(q) : \A hs :
           GoodFold(s, 0, {h}, q, n - 1, hs)
             => GoodFold(s, 0, {h}, q, n, FoldStep(s, 0, hs, q[n]))
    BY <1>2 DEF GoodFold, FoldStep
  <2> QED BY ONLY <2>1, <2>2, q \in Seq(Req), GoodAll!FoldKeeps
<1>4. D = DeliverEach(h, q)
  BY DEF GoodAll!Fold, GoodAll!FoldLeft, GoodAll!MapThenFoldSet, GoodAll!Max,
         FoldLeft, MapThenFoldSet, Max, FoldStep, DeliverStep, DeliverEach
<1> QED BY <1>3, <1>4 DEF GoodFold, GoodSoFar

\* fill() delivers what was held back.
LEMMA DeliverHeldGood ==
    ASSUME Orderly, NEW h, NEW s, Good(h, s), NEW c \in Client, h.cc[c].good
    PROVE  \A g \in DeliverHeld(h, c) : Good(g, s)
<1>1. HandlerInv(h, {}, Conn) /\ Attached(h)
  BY DEF Good, Fit, Core
<1>2. CASE DeliverHeld(h, c) = {h}
  BY <1>2
<1>3. ASSUME NEW p, HeldBack(h, c, p), DeliverHeld(h, c) = DeliverEach(h, p)
      PROVE  \A g \in DeliverEach(h, p) : Good(g, s)
  <2>1. Alive(h, c)
    BY <1>1, <1>3 DEF HeldBack, Attached, Alive
  <2> QED BY <1>3, <2>1, DeliverGood DEF HeldBack
<1> QED BY <1>1, <1>2, <1>3, HeldBackIs

\* Only answered requests are taken from a client.
Dropped(h, g, c) ==
    /\ State(g) /\ g.sc = h.sc /\ g.idle = h.idle /\ g.req = h.req /\ g.postS = h.postS
    /\ \A d \in Client : d # c => g.cc[d] = h.cc[d]
    /\ g.cc[c].open = h.cc[c].open /\ g.cc[c].good = h.cc[c].good
    /\ g.cc[c].conn = h.cc[c].conn /\ g.cc[c].block = h.cc[c].block
    /\ ReadOf(g.cc[c]) = ReadOf(h.cc[c]) /\ SameCounters(h.cc[c], g.cc[c])
    /\ \A r : h.req[r].res = "none" /\ Contains(h.cc[c].requests, r) =>
                Contains(g.cc[c].requests, r)

\* The invariant is kept when requests of a client are dropped.
LEMMA DroppedFits ==
    ASSUME NEW h, NEW s, Fit(h, s), NEW v, NEW w, InLists(h, v, w),
           NEW c \in Client, NEW g, Dropped(h, g, c),
           h.cc[c].open \/ g.cc[c].requests = h.cc[c].requests
    PROVE  Fit(g, s) /\ InLists(g, v, w)
<1> DEFINE q == QueuesOf(h)
<1>1. Known(h)
  BY DEF Fit, Core
<1>2. Known(g) /\ State(g)
  BY <1>1 DEF Known, Dropped
<1>3. \A d \in Client :
         /\ g.cc[d].open = h.cc[d].open /\ g.cc[d].conn = h.cc[d].conn
         /\ ReadOf(h.cc[d]) \subseteq ReadOf(g.cc[d])
         /\ ~h.cc[d].open => g.cc[d].requests = h.cc[d].requests
         /\ g.cc[d].good = h.cc[d].good
         /\ g.cc[d].block = h.cc[d].block /\ SameCounters(h.cc[d], g.cc[d])
         /\ \A r : h.req[r].res = "none" /\ Contains(h.cc[d].requests, r) =>
                     Contains(g.cc[d].requests, r)
  <2>1. \A d \in Client : SameCounters(h.cc[d], h.cc[d])
    BY DEF SameCounters, HasCounters
  <2> QED BY <2>1 DEF Dropped
<1>4. /\ g.req = h.req
      /\ \A k \in Conn : /\ g.sc[k].link = h.sc[k].link /\ g.sc[k].good = h.sc[k].good
                         /\ g.sc[k].acc = h.sc[k].acc
  BY DEF Dropped
<1>5. \A r \in Req : r[1] \in Client
  BY Constants
<1>6. Like(h, g, q)
  BY ONLY <1>2, <1>3, <1>4, <1>5 DEF Like, Alive
<1>7. Fit(g, s)
  BY <1>6, LikeFits DEF Dropped
<1>8. InLists(g, v, w)
  <2>1. \A j \in Conn : Contains(v, j) => g.sc[j].acc = None /\ g.sc[j].link # "none"
    BY DEF InLists, Dropped
  <2> QED BY <2>1, ListsSame DEF Dropped
<1> QED BY <1>7, <1>8

\* The answers of a client are written: what it waits for stays.
LEMMA ShownFits ==
    ASSUME NEW h, NEW s, Fit(h, s), NEW v, NEW w, InLists(h, v, w), Attached(h),
           NEW c \in Client, NEW n \in 0..Len(h.cc[c].requests),
           \A i \in 1..n : h.req[h.cc[c].requests[i]].res # "none",
           NEW g, g = Shown(h, c, n)
    PROVE  Fit(g, s) /\ InLists(g, v, w)
<1> DEFINE q == h.cc[c].requests
<1>1. State(h) /\ h.cc[c] \in AcceptConn
  BY DEF Fit, Core, State
<1>2. q \in Seq(Req) /\ Len(q) \in Nat
  BY <1>1, RequestsAre
<1>3. PICK m \in 0..n : g = [h EXCEPT !.cc[c].requests = SubSeq(q, m + 1, Len(q))]
  <2>1. \E m \in 0..n : Shown(h, c, n) = [h EXCEPT !.cc[c].requests =
                                             SubSeq(h.cc[c].requests, m + 1, Len(h.cc[c].requests))]
    BY ONLY <1>1, c \in Client, n \in 0..Len(h.cc[c].requests), ShownIs
  <2> QED BY <2>1
<1> DEFINE p == SubSeq(q, m + 1, Len(q))
           x == [h.cc[c] EXCEPT !.requests = p]
<1>4. m \in 0..Len(q) /\ \A i \in 1..m : h.req[q[i]].res # "none"
  BY <1>2
<1>5. /\ p \in Seq(Req)
      /\ \A i \in DOMAIN q : i <= m \/ (i - m \in DOMAIN p /\ p[i - m] = q[i])
  <2> HIDE DEF q
  <2> QED BY <1>2, <1>4, DropIs
<1>6. \A r : h.req[r].res = "none" /\ Contains(q, r) => Contains(p, r)
  <2> SUFFICES ASSUME NEW r, h.req[r].res = "none", Contains(q, r) PROVE Contains(p, r)
    OBVIOUS
  <2>1. PICK i \in 1..Len(q) : q[i] = r
    BY DEF Contains
  <2>2. i \in DOMAIN q /\ i \in Int /\ m \in Int
    BY <1>2, <1>4, <2>1
  <2>3. ~(i <= m)
    BY <1>4, <2>1, <2>2
  <2>4. i - m \in DOMAIN p /\ p[i - m] = r
    BY <1>5, <2>1, <2>2, <2>3
  <2>5. DOMAIN p = 1..Len(p)
    BY <1>5
  <2> HIDE DEF p
  <2> QED BY <2>4, <2>5 DEF Contains
<1> HIDE DEF p
<1>7. /\ DOMAIN g = Parts /\ g.sc = h.sc /\ g.idle = h.idle /\ g.req = h.req
      /\ g.postA = h.postA /\ g.postS = h.postS /\ g.cc = [h.cc EXCEPT ![c] = x]
  BY <1>1, <1>3 DEF State, Parts, p
<1>8. /\ x \in AcceptConn /\ x.open = h.cc[c].open /\ x.good = h.cc[c].good
      /\ x.block = h.cc[c].block /\ x.conn = h.cc[c].conn /\ x.parsed = h.cc[c].parsed
      /\ x.messages = h.cc[c].messages /\ x.requests = p /\ SameCounters(h.cc[c], x)
  BY <1>1, <1>5 DEF AcceptConn, SameCounters, HasCounters
<1> HIDE DEF x
<1>9. State(g) /\ \A d \in Client : g.cc[d] = IF d = c THEN x ELSE h.cc[d]
  BY <1>1, <1>7, <1>8 DEF State
<1>10. Dropped(h, g, c)
  BY <1>6, <1>7, <1>8, <1>9 DEF Dropped, ReadOf
<1>11. h.cc[c].open \/ p = q
  <2> SUFFICES ASSUME ~h.cc[c].open PROVE p = q
    OBVIOUS
  <2>1. q = <<>>
    BY DEF Attached
  <2>2. Len(q) = 0 /\ m = 0
    BY <1>2, <1>4, <2>1
  <2>3. p = SubSeq(<<>>, 1, 0)
    BY <2>1, <2>2 DEF p
  <2> QED BY <2>1, <2>3
<1> QED BY <1>8, <1>9, <1>10, <1>11, DroppedFits

\* A client is closed, and with it the connection attached to it, which has an
\* event for that.
LEMMA CloseClientFits ==
    ASSUME NEW h, NEW s, Fit(h, s), GoodOpen(h), NEW v, NEW w, InLists(h, v, w),
           NEW c \in Client, NEW g, g = CloseClient(h, c)
    PROVE  Fit(g, s) /\ \E u : InLists(g, v, u)
<1> DEFINE k == h.cc[c].conn
           q == QueuesOf(h)
           x == [h.cc[c] EXCEPT !.open = FALSE, !.requests = <<>>]
           closed == [h EXCEPT !.cc[c].open = FALSE, !.cc[c].requests = <<>>]
           y == [h.sc[k] EXCEPT !.good = FALSE]
           bad == [closed EXCEPT !.sc[k].good = FALSE]
           posted == PostS(bad, k, "Error")
           done == Detach(posted, c, k)
<1>1. g = IF k = None THEN closed ELSE done
  BY DEF CloseClient
<1>2. /\ State(h) /\ h.cc[c] \in AcceptConn /\ k \in Conn \cup {None} /\ Attached(h)
      /\ Core(h, s, q) /\ Posted(h) /\ \A d \in Client : Attending(h, q, d)
  BY DEF Fit, Core, State, AcceptConn
<1>3. /\ DOMAIN closed = Parts /\ closed.sc = h.sc /\ closed.idle = h.idle
      /\ closed.req = h.req /\ closed.postA = h.postA /\ closed.postS = h.postS
      /\ closed.cc = [h.cc EXCEPT ![c] = x]
  BY <1>2 DEF State, Parts
<1>4. /\ x \in AcceptConn /\ ~x.open /\ x.requests = <<>> /\ x.parsed = h.cc[c].parsed
      /\ x.messages = h.cc[c].messages /\ x.conn = k
  <2>1. <<>> \in Seq(Req)
    OBVIOUS
  <2> QED BY <1>2, <2>1 DEF AcceptConn
<1> HIDE DEF closed, x
<1>5. State(closed) /\ \A d \in Client : closed.cc[d] = IF d = c THEN x ELSE h.cc[d]
  BY <1>2, <1>3, <1>4 DEF State
<1>6. \A d \in Client : SameAs(h.cc[d], h.cc[d])
  BY DEF SameAs, Apart, SameCounters, HasCounters
<1>7. CASE k = None
  <2>1. Closes(h, closed, c)
    <3>1. None \notin Conn
      BY Constants
    <3> QED BY <1>3, <1>4, <1>5, <1>6, <1>7, <3>1 DEF Closes, ReadOf
  <2>2. QueuesOf(closed) = q
    BY <1>3, QueuesSame
  <2>3. Core(closed, s, q) /\ \A d \in Client : Attending(closed, q, d)
    BY <1>2, <2>1, ClosesKeeps
  <2>4. Posted(closed)
    BY <1>2, <1>3 DEF Posted
  <2>5. InLists(closed, v, w)
    <3>1. \A j \in Conn : Contains(v, j) => closed.sc[j].acc = None /\ closed.sc[j].link # "none"
      BY <1>3 DEF InLists
    <3> QED BY <1>3, <3>1, ListsSame
  <2> QED BY <1>1, <1>7, <2>2, <2>3, <2>4, <2>5 DEF Fit
<1>8. CASE k # None
  <2>1. k \in Conn /\ h.sc[k].acc = c /\ k \in Private /\ h.sc[k].good /\ Open(h.sc[k])
    <3>1. k \in Conn /\ h.sc[k].acc = c /\ c # None
      BY <1>2, <1>8, Constants DEF Attached
    <3> QED BY <1>2, <3>1 DEF Attached, GoodOpen
  <2> HIDE DEF k
  <2>2. k # Shared /\ ~Contains(v, k)
    <3>1. c # None
      BY Constants
    <3> QED BY <2>1, <3>1, Constants DEF InLists
  <2>3. /\ y \in ConnectConn /\ ~y.good /\ y.link = h.sc[k].link /\ y.send = h.sc[k].send
        /\ y.sent = h.sc[k].sent /\ y.post = h.sc[k].post /\ y.acc = h.sc[k].acc
        /\ y.next = h.sc[k].next
    <3>1. h.sc[k] \in ConnectConn
      BY <1>2, <2>1 DEF State
    <3> QED BY <3>1 DEF ConnectConn
  <2>4. /\ DOMAIN bad = Parts /\ bad.cc = closed.cc /\ bad.req = h.req /\ bad.idle = h.idle
        /\ bad.postS = h.postS /\ bad.postA = h.postA /\ bad.sc = [h.sc EXCEPT ![k] = y]
    BY <1>3, <1>5 DEF State, Parts
  <2> HIDE DEF bad, y
  <2>5. State(bad) /\ \A j \in Conn : bad.sc[j] = IF j = k THEN y ELSE h.sc[j]
    BY <1>2, <1>5, <2>3, <2>4 DEF State
  <2>6. InLists(bad, v, w)
    <3>1. \A j \in Conn : Contains(v, j) => bad.sc[j].acc = None /\ bad.sc[j].link # "none"
      BY <2>2, <2>5 DEF InLists
    <3>2. /\ bad.idle = h.idle /\ bad.postS = h.postS
          /\ \A j \in Conn : bad.sc[j].next = h.sc[j].next /\ bad.sc[j].post = h.sc[j].post
      BY ONLY <2>3, <2>4, <2>5
    <3> QED BY ONLY InLists(h, v, w), <3>1, <3>2, ListsSame
  <2>7. /\ OnlyPosted(bad, posted, k, "Error")
        /\ \E u : InLists(posted, v, u)
    BY <2>1, <2>2, <2>5, <2>6, PostSIs DEF Event
  <2> HIDE DEF posted
  <2>8. PICK u : InLists(posted, v, u)
    BY <2>7
  <2>9. /\ State(posted) /\ posted.cc = closed.cc /\ posted.req = h.req
        /\ \A j \in Conn : /\ posted.sc[j].link = h.sc[j].link
                           /\ posted.sc[j].send = h.sc[j].send /\ posted.sc[j].sent = h.sc[j].sent
                           /\ posted.sc[j].acc = h.sc[j].acc
                           /\ posted.sc[j].good = (IF j = k THEN FALSE ELSE h.sc[j].good)
                           /\ posted.sc[j].post = IF j = k THEN h.sc[j].post \cup {"Error"}
                                                  ELSE h.sc[j].post
    <3>1. /\ State(posted) /\ posted.cc = bad.cc /\ posted.req = bad.req
          /\ \A j \in Conn : /\ posted.sc[j].link = bad.sc[j].link
                             /\ posted.sc[j].good = bad.sc[j].good
                             /\ posted.sc[j].send = bad.sc[j].send
                             /\ posted.sc[j].sent = bad.sc[j].sent
                             /\ posted.sc[j].acc = bad.sc[j].acc
                             /\ posted.sc[j].post = IF j = k THEN bad.sc[j].post \cup {"Error"}
                                                    ELSE bad.sc[j].post
      BY ONLY <2>7 DEF OnlyPosted, SameConn
    <3>2. \A j \in Conn : /\ bad.sc[j].link = h.sc[j].link
                          /\ bad.sc[j].send = h.sc[j].send /\ bad.sc[j].sent = h.sc[j].sent
                          /\ bad.sc[j].acc = h.sc[j].acc /\ bad.sc[j].post = h.sc[j].post
                          /\ bad.sc[j].good = (IF j = k THEN FALSE ELSE h.sc[j].good)
      <4> SUFFICES ASSUME NEW j \in Conn
                   PROVE  /\ bad.sc[j].link = h.sc[j].link
                          /\ bad.sc[j].send = h.sc[j].send /\ bad.sc[j].sent = h.sc[j].sent
                          /\ bad.sc[j].acc = h.sc[j].acc /\ bad.sc[j].post = h.sc[j].post
                          /\ bad.sc[j].good = (IF j = k THEN FALSE ELSE h.sc[j].good)
        OBVIOUS
      <4>1. CASE j = k
        <5>1. bad.sc[j] = y /\ y.good = FALSE
          BY ONLY <2>3, <2>5, <4>1 DEF ConnectConn
        <5> QED BY ONLY <2>3, <4>1, <5>1
      <4>2. CASE j # k
        BY ONLY <2>5, <4>2, j \in Conn
      <4> QED BY <4>1, <4>2
    <3>3. State(posted) /\ posted.cc = closed.cc /\ posted.req = h.req
      BY ONLY <2>4, <3>1
    <3> SUFFICES ASSUME NEW j \in Conn
                 PROVE  /\ posted.sc[j].link = h.sc[j].link
                        /\ posted.sc[j].send = h.sc[j].send /\ posted.sc[j].sent = h.sc[j].sent
                        /\ posted.sc[j].acc = h.sc[j].acc
                        /\ posted.sc[j].good = (IF j = k THEN FALSE ELSE h.sc[j].good)
                        /\ posted.sc[j].post = IF j = k THEN h.sc[j].post \cup {"Error"}
                                               ELSE h.sc[j].post
      BY <3>3
    <3>4. /\ posted.sc[j].link = bad.sc[j].link /\ posted.sc[j].good = bad.sc[j].good
          /\ posted.sc[j].send = bad.sc[j].send /\ posted.sc[j].sent = bad.sc[j].sent
          /\ posted.sc[j].acc = bad.sc[j].acc
          /\ posted.sc[j].post = IF j = k THEN bad.sc[j].post \cup {"Error"} ELSE bad.sc[j].post
      BY ONLY <3>1, j \in Conn
    <3>5. /\ bad.sc[j].link = h.sc[j].link
          /\ bad.sc[j].send = h.sc[j].send /\ bad.sc[j].sent = h.sc[j].sent
          /\ bad.sc[j].acc = h.sc[j].acc /\ bad.sc[j].post = h.sc[j].post
          /\ bad.sc[j].good = (IF j = k THEN FALSE ELSE h.sc[j].good)
      BY ONLY <3>2, j \in Conn
    <3> QED BY ONLY <3>4, <3>5
  <2>10. /\ State(done) /\ done.req = posted.req /\ done.idle = posted.idle
         /\ done.postS = posted.postS
         /\ \A d \in Client : d # c => done.cc[d] = posted.cc[d]
         /\ \A j \in Conn : j # k => done.sc[j] = posted.sc[j]
         /\ done.cc[c].conn = None /\ SameClient(posted.cc[c], done.cc[c])
         /\ done.sc[k].acc = None /\ SameConn(posted.sc[k], done.sc[k])
         /\ done.sc[k].post = posted.sc[k].post /\ done.sc[k].next = posted.sc[k].next
    BY <2>1, <2>9, DetachIs
  <2> HIDE DEF done
  <2>11. \A j \in Conn : /\ done.sc[j].link = h.sc[j].link
                         /\ done.sc[j].send = h.sc[j].send /\ done.sc[j].sent = h.sc[j].sent
                         /\ done.sc[j].acc = (IF j = k THEN None ELSE h.sc[j].acc)
                         /\ done.sc[j].good = (IF j = k THEN FALSE ELSE h.sc[j].good)
                         /\ done.sc[j].post = (IF j = k THEN h.sc[j].post \cup {"Error"}
                                               ELSE h.sc[j].post)
                         /\ done.sc[j].next = posted.sc[j].next
    <3> SUFFICES ASSUME NEW j \in Conn
                 PROVE  /\ done.sc[j].link = h.sc[j].link
                        /\ done.sc[j].send = h.sc[j].send /\ done.sc[j].sent = h.sc[j].sent
                        /\ done.sc[j].acc = (IF j = k THEN None ELSE h.sc[j].acc)
                        /\ done.sc[j].good = (IF j = k THEN FALSE ELSE h.sc[j].good)
                        /\ done.sc[j].post = (IF j = k THEN h.sc[j].post \cup {"Error"}
                                              ELSE h.sc[j].post)
                        /\ done.sc[j].next = posted.sc[j].next
      OBVIOUS
    <3>1. CASE j = k
      BY ONLY <2>9, <2>10, <3>1, j \in Conn DEF SameConn
    <3>2. CASE j # k
      <4>1. done.sc[j] = posted.sc[j]
        BY ONLY <2>10, <3>2, j \in Conn
      <4>2. /\ posted.sc[j].link = h.sc[j].link
            /\ posted.sc[j].send = h.sc[j].send /\ posted.sc[j].sent = h.sc[j].sent
            /\ posted.sc[j].acc = h.sc[j].acc
            /\ posted.sc[j].good = (IF j = k THEN FALSE ELSE h.sc[j].good)
            /\ posted.sc[j].post = IF j = k THEN h.sc[j].post \cup {"Error"} ELSE h.sc[j].post
        BY ONLY <2>9, j \in Conn
      <4> QED BY ONLY <3>2, <4>1, <4>2
    <3> QED BY <3>1, <3>2
  <2>12. Closes(h, done, c)
    <3>1. \A d \in Client : d # c => SameAs(h.cc[d], done.cc[d])
      BY <1>5, <1>6, <2>9, <2>10
    <3>2. /\ ~done.cc[c].open /\ done.cc[c].requests = <<>> /\ done.cc[c].conn = None
          /\ ReadOf(done.cc[c]) = ReadOf(h.cc[c])
      BY <1>4, <1>5, <2>9, <2>10 DEF SameClient, ReadOf
    <3>3. \A j \in Conn : IF h.cc[c].conn = j
                          THEN ~done.sc[j].good /\ done.sc[j].acc = None /\ Open(h.sc[j])
                          ELSE done.sc[j].good = h.sc[j].good /\ done.sc[j].acc = h.sc[j].acc
      BY <2>1, <2>11 DEF k
    <3> QED BY <2>9, <2>10, <2>11, <3>1, <3>2, <3>3 DEF Closes
  <2>13. QueuesOf(done) = q
    BY <2>11, QueuesSame
  <2>14. Core(done, s, q) /\ \A d \in Client : Attending(done, q, d)
    BY <1>2, <2>12, ClosesKeeps
  <2>15. Posted(done)
    <3> SUFFICES ASSUME NEW j \in Conn
                 PROVE  /\ done.sc[j].good =>
                             /\ done.sc[j].post \subseteq {"Write"}
                             /\ done.sc[j].post # {} => done.sc[j].send # <<>>
                        /\ Open(done.sc[j]) /\ ~done.sc[j].good =>
                             j # Shared /\ "Error" \in done.sc[j].post
                        /\ ~Open(done.sc[j]) =>
                             /\ done.sc[j].send = <<>> /\ done.sc[j].sent = <<>>
                             /\ done.sc[j].post = {} /\ done.sc[j].acc = None
      BY DEF Posted
    <3>1. CASE j = k
      BY <2>1, <2>2, <2>11, <3>1 DEF Open
    <3>2. CASE j # k
      <4>1. /\ done.sc[j].link = h.sc[j].link /\ done.sc[j].send = h.sc[j].send
            /\ done.sc[j].sent = h.sc[j].sent /\ done.sc[j].acc = h.sc[j].acc
            /\ done.sc[j].good = h.sc[j].good /\ done.sc[j].post = h.sc[j].post
        BY ONLY <2>11, <3>2, j \in Conn
      <4>2. Posted(h)
        BY <1>2
      <4> QED BY ONLY <4>1, <4>2, j \in Conn DEF Posted, Open
    <3> QED BY <3>1, <3>2
  <2>16. InLists(done, v, u)
    <3>1. \A j \in Conn : Contains(v, j) => done.sc[j].acc = None /\ done.sc[j].link # "none"
      <4>1. \A j \in Conn : Contains(v, j) => h.sc[j].acc = None /\ h.sc[j].link # "none"
        BY DEF InLists
      <4> QED BY ONLY <2>2, <2>11, <4>1
    <3>2. \A j \in Conn : done.sc[j].next = posted.sc[j].next /\ done.sc[j].post = posted.sc[j].post
      BY <2>9, <2>11
    <3> QED BY <2>8, <2>10, <3>1, <3>2, ListsSame
  <2>17. g = done
    BY <1>1, <1>8 DEF k
  <2> QED BY <2>13, <2>14, <2>15, <2>16, <2>17 DEF Fit
<1> QED BY <1>7, <1>8

\* Events of clients do not matter.
LEMMA ClientEventsFit ==
    ASSUME NEW h, NEW s, Fit(h, s), NEW g, OnlyClientEvents(h, g)
    PROVE  /\ Fit(g, s)
           /\ \A v, w : InLists(h, v, w) => InLists(g, v, w)
<1>1. /\ State(g) /\ g.sc = h.sc /\ g.idle = h.idle /\ g.req = h.req /\ g.postS = h.postS
      /\ \A d \in Client : SameAs(h.cc[d], g.cc[d])
  BY DEF OnlyClientEvents
<1>2. Known(g)
  BY <1>1 DEF Fit, Core, Known
<1>3. Like(h, g, QueuesOf(h))
  <2>1. \A d \in Client :
           /\ g.cc[d].open = h.cc[d].open /\ g.cc[d].conn = h.cc[d].conn
           /\ ReadOf(h.cc[d]) \subseteq ReadOf(g.cc[d])
           /\ g.cc[d].requests = h.cc[d].requests
           /\ g.cc[d].good = h.cc[d].good
           /\ g.cc[d].block = h.cc[d].block /\ SameCounters(h.cc[d], g.cc[d])
    BY <1>1 DEF SameAs, Apart, ReadOf
  <2>2. \A t \in Req : t[1] \in Client
    BY Constants
  <2> QED BY ONLY <1>1, <1>2, <2>1, <2>2 DEF Like, Alive
<1>4. Fit(g, s)
  BY <1>1, <1>3, LikeFits
<1>5. \A v, w : InLists(h, v, w) => InLists(g, v, w)
  <2> SUFFICES ASSUME NEW v, NEW w, InLists(h, v, w) PROVE InLists(g, v, w)
    OBVIOUS
  <2>1. \A j \in Conn : Contains(v, j) => g.sc[j].acc = None /\ g.sc[j].link # "none"
    BY <1>1 DEF InLists
  <2> QED BY <1>1, <2>1, ListsSame
<1> QED BY <1>4, <1>5

\* The handler deals with the events of a client.
LEMMA PostAcceptSuits ==
    ASSUME Orderly, Held, Suits, PostAccept
    PROVE  Suits'
<1> DEFINE c == Head(postA)
           evts == cc[c].post
           h == [Handler EXCEPT !.cc[c].post = {}]
           n == Ready(h, c)
           write == cc[c].good /\ "Write" \in evts
<1>1. PICK g \in IF write THEN DeliverHeld(h, c) ELSE {h} :
        LET written == IF write THEN Shown(g, c, n) ELSE g
            closed == IF (~cc[c].good \/ "Error" \in evts) /\ cc[c].open
                      THEN CloseClient(written, c) ELSE written
        IN Becomes([closed EXCEPT !.postA = Tail(@)])
  BY DEF PostAccept
<1> DEFINE written == IF write THEN Shown(g, c, n) ELSE g
           closed == IF (~cc[c].good \/ "Error" \in evts) /\ cc[c].open
                     THEN CloseClient(written, c) ELSE written
           done == [closed EXCEPT !.postA = Tail(@)]
<1>2. Becomes(done) /\ postA # <<>> /\ session' = session
  BY <1>1 DEF PostAccept
<1>3. HandlerInv(Handler, {}, Conn) /\ State(Handler) /\ Fit(Handler, session)
  BY DEF Held, HandlerInv, Suits
<1>4. postA \in Seq(Client)
  BY <1>3, Fields DEF State
<1>5. c \in Client
  <2>1. postA # <<>>
    BY ONLY <1>2
  <2> QED BY ONLY <1>4, <2>1
<1> HIDE DEF c
<1>6. Frame(Handler, h) /\ h.cc[c].good = cc[c].good
  <2>1. Frame(Handler, h)
    BY <1>3, <1>5, ClientTaken
  <2> QED BY <1>5, <2>1, Fields DEF Frame, SameClients, SameClient
<1>7. OnlyClientEvents(Handler, h)
  <2> DEFINE y == [cc[c] EXCEPT !.post = {}]
  <2>1. /\ h.sc = sc /\ h.idle = idle /\ h.req = req /\ h.postS = postS
        /\ h.cc = [cc EXCEPT ![c] = y]
    BY DEF Handler
  <2>2. cc \in [Client -> AcceptConn] /\ cc[c] \in AcceptConn
    BY <1>3, <1>5, Fields DEF State
  <2>3. SameAs(cc[c], y)
    BY <2>2 DEF AcceptConn, SameAs, Apart, SameCounters, HasCounters
  <2> HIDE DEF y
  <2>4. \A d \in Client : SameAs(cc[d], cc[d])
    BY DEF SameAs, Apart, SameCounters, HasCounters
  <2>5. \A d \in Client : h.cc[d] = IF d = c THEN y ELSE cc[d]
    BY <2>1, <2>2
  <2>6. \A d \in Client : SameAs(Handler.cc[d], h.cc[d])
    BY <2>3, <2>4, <2>5, Fields
  <2>7. State(h)
    BY <1>6 DEF Frame
  <2> HIDE DEF h
  <2> QED BY ONLY <2>1, <2>6, <2>7, Fields DEF OnlyClientEvents
<1> HIDE DEF h
<1>8. Good(h, session)
  <2>1. HandlerInv(h, {}, Conn)
    BY <1>3, <1>6, FrameKeeps
  <2>2. /\ Fit(h, session)
        /\ \A v, w : InLists(Handler, v, w) => InLists(h, v, w)
    BY <1>3, <1>7, ClientEventsFit
  <2> QED BY <2>1, <2>2 DEF Good, Suits
<1>9. /\ n \in 0..Len(h.cc[c].requests) /\ n = Ready(h, c)
      /\ \A i \in 1..n : h.req[h.cc[c].requests[i]].res # "none"
  BY <1>5, <1>8, ReadyIs DEF Good, HandlerInv
<1> HIDE DEF n, write
<1>10. /\ Good(g, session)
       /\ n \in 0..Len(g.cc[c].requests)
       /\ \A i \in 1..n : g.req[g.cc[c].requests[i]].res # "none"
  <2>1. CASE write
    <3>1. HandlerInv(h, {}, Conn) /\ h.cc[c].good
      BY <1>6, <1>8, <2>1 DEF Good, write
    <3>2. g \in DeliverHeld(h, c)
      BY <1>1, <2>1
    <3>3. /\ SameClients(h, g)
          /\ \A i \in 1..n : g.req[h.cc[c].requests[i]].res # "none"
      BY <1>5, <1>9, <3>1, <3>2, DeliverHeldKeeps
    <3>4. Good(g, session)
      BY <1>5, <1>8, <3>1, <3>2, DeliverHeldGood
    <3>5. g.cc[c].requests = h.cc[c].requests
      BY <1>5, <3>3 DEF SameClients, SameClient
    <3> QED BY <1>9, <3>3, <3>4, <3>5
  <2>2. CASE ~write
    BY <1>1, <1>8, <1>9, <2>2
  <2> QED BY <2>1, <2>2
<1>11. Good(written, session)
  <2>1. PICK v, w : InLists(g, v, w)
    BY <1>10 DEF Good
  <2>2. HandlerInv(g, {}, Conn) /\ Fit(g, session) /\ Attached(g)
    BY <1>10 DEF Good, Fit, Core
  <2> DEFINE e == Shown(g, c, n)
  <2>3. HandlerInv(e, {}, Conn)
    BY <1>5, <1>10, <2>2, ShownKeeps
  <2>4. e = Shown(g, c, n)
    OBVIOUS
  <2> HIDE DEF e
  <2>5. Fit(e, session) /\ InLists(e, v, w)
    BY ONLY <1>5, <1>10, <2>1, <2>2, <2>4, ShownFits
  <2>6. Good(e, session)
    BY <2>3, <2>5 DEF Good
  <2> QED BY <1>10, <2>4, <2>6
<1> HIDE DEF written
<1>12. Good(closed, session)
  <2> DEFINE e == CloseClient(written, c)
  <2>1. PICK v, w : InLists(written, v, w)
    BY <1>11 DEF Good
  <2>2. HandlerInv(written, {}, Conn) /\ Fit(written, session) /\ GoodOpen(written)
    BY <1>11 DEF Good, HandlerInv
  <2>3. HandlerInv(e, {}, Conn)
    BY <1>5, <2>2, CloseClientKeeps
  <2>4. e = CloseClient(written, c)
    OBVIOUS
  <2> HIDE DEF e
  <2>5. Fit(e, session) /\ \E u : InLists(e, v, u)
    BY ONLY <1>5, <2>1, <2>2, <2>4, CloseClientFits
  <2>6. Good(e, session)
    BY <2>3, <2>5 DEF Good
  <2> QED BY <1>11, <2>4, <2>6
<1>13. /\ done.cc = closed.cc /\ done.sc = closed.sc /\ done.idle = closed.idle
       /\ done.req = closed.req /\ done.postS = closed.postS
  <2>1. State(closed)
    BY <1>12 DEF Good, HandlerInv
  <2> HIDE DEF closed
  <2> QED BY <2>1 DEF State, Parts
<1> HIDE DEF closed, done
<1> DEFINE f == Handler'
<1>14. /\ DOMAIN f = Parts /\ f.cc = closed.cc /\ f.sc = closed.sc /\ f.idle = closed.idle
       /\ f.req = closed.req /\ f.postS = closed.postS
  BY <1>2, <1>13 DEF Handler, Becomes, Parts
<1>15. f.postA \in Seq(Client)
  <2>1. Held' /\ (Held' <=> HandlerInv(f, {}, Conn))
    BY PostAcceptHeld DEF Held
  <2> HIDE DEF f
  <2> QED BY <2>1 DEF HandlerInv, State
<1>16. Suits' <=> Fit(f, session) /\ \E v, w : InLists(f, v, w)
  BY <1>2 DEF Suits
<1> HIDE DEF f
<1>17. Fit(closed, session) /\ \E v, w : InLists(closed, v, w)
  BY <1>12 DEF Good
<1> QED BY <1>14, <1>15, <1>16, <1>17, FitSame

-----------------------------------------------------------------------------
(* A response is read.                                                     *)

\* Request r leaves connection k, and its client does not notice: it is not
\* served, or the request has no body.
Unheard(h, g, s, u, q, p, k, r) ==
    /\ On(q, k, r) /\ p \in Queues /\ Less(q[k], p[k], r)
    /\ \A j \in Conn : j # k => p[j] = q[j] /\ u[j] = s[j]
    /\ u \in [Conn -> Sessions]
    /\ h.sc[k].acc = None \/ Alive(h, r[1]) => u[k] = s[k]
    /\ Alive(h, r[1]) => h.req[r].cmd \in Empty
    /\ State(g)
    /\ \A j \in Conn : /\ g.sc[j].link = h.sc[j].link /\ g.sc[j].good = h.sc[j].good
                       /\ g.sc[j].acc = h.sc[j].acc
    /\ \A d \in Client : /\ Apart(h.cc[d], g.cc[d])
                         /\ d # r[1] \/ Alive(h, d) => SameAs(h.cc[d], g.cc[d])
    /\ \A t \in Req : /\ g.req[t].cmd = h.req[t].cmd
                      /\ t # r => g.req[t] = h.req[t]
    /\ Known(g)

\* The invariant is kept when a response comes to a client that has gone.
LEMMA UnheardKeeps ==
    ASSUME NEW h, NEW g, NEW s, NEW u, NEW q, NEW p, Core(h, s, q),
           NEW k \in Conn, NEW r \in Req, Unheard(h, g, s, u, q, p, k, r)
    PROVE  /\ Core(g, u, p)
           /\ \A d \in Client : Attending(h, q, d) => Attending(g, p, d)
<1> DEFINE c == r[1]
           x == h.cc[c]
           y == g.cc[c]
<1>1. c \in Client /\ Counts(h, s, q)
  BY Constants DEF Core
<1>2. /\ On(q, k, r) /\ p \in Queues /\ Less(q[k], p[k], r)
      /\ \A j \in Conn : j # k => p[j] = q[j] /\ u[j] = s[j]
      /\ u \in [Conn -> Sessions]
      /\ h.sc[k].acc = None => u[k] = s[k]
      /\ State(g) /\ Known(g)
      /\ \A j \in Conn : /\ g.sc[j].link = h.sc[j].link /\ g.sc[j].good = h.sc[j].good
                         /\ g.sc[j].acc = h.sc[j].acc
      /\ \A t \in Req : /\ g.req[t].cmd = h.req[t].cmd
                        /\ t # r => g.req[t] = h.req[t]
      /\ \A d \in Client : /\ Apart(h.cc[d], g.cc[d])
                           /\ d # r[1] => SameAs(h.cc[d], g.cc[d])
  BY DEF Unheard
<1>3. ASSUME Alive(h, c)
      PROVE  /\ OneUse(y, c) /\ y.block = x.block
             /\ IF x.conn = k
                THEN InSync(y, u[k], Count(g, p, k, "watch"),
                            Count(g, p, k, "multi"), Count(g, p, k, "subscribe"))
                ELSE SameCounters(x, y)
  <2>1. u[k] = s[k] /\ SameAs(x, y)
    BY <1>1, <1>3 DEF Unheard
  <2>2. SameCounters(x, y) /\ y.block = x.block
    BY <2>1 DEF SameAs
  <2>3. OneUse(x, c)
    BY <1>1, <1>3 DEF Counts
  <2>4. OneUse(y, c)
    BY <2>2, <2>3, SameSync
  <2>5. ASSUME x.conn = k
        PROVE  InSync(y, u[k], Count(g, p, k, "watch"),
                      Count(g, p, k, "multi"), Count(g, p, k, "subscribe"))
    <3> DEFINE W(cmd) == Count(h, q, k, cmd)
               V(cmd) == Count(g, p, k, cmd)
    <3>1. InSync(x, s[k], W("watch"), W("multi"), W("subscribe"))
      <4>1. k # None
        BY Constants
      <4> QED BY <1>1, <1>3, <2>5, <4>1 DEF Counts
    <3>2. \A cmd : V(cmd) <= W(cmd) /\ V(cmd) \in Nat /\ W(cmd) \in Nat
      <4> TAKE cmd
      <4>1. \A t \in Req : On(p, k, t) <=> On(q, k, t) /\ t # r
        BY <1>2 DEF Less, On
      <4>2. V(cmd) + (IF h.req[r].cmd = cmd THEN 1 ELSE 0) <= W(cmd)
        BY <1>2, <4>1, CountLess
      <4>3. V(cmd) \in Nat /\ W(cmd) \in Nat
        BY CountIs
      <4> HIDE DEF V, W
      <4> QED BY <4>2, <4>3
    <3> HIDE DEF V, W
    <3>3. x \in AcceptConn
      BY <1>1 DEF Core, State
    <3>4. InSync(x, s[k], V("watch"), V("multi"), V("subscribe"))
      <4>1. /\ x.pendWatch \in Nat /\ x.watch \in Nat /\ x.pendMulti \in Nat /\ x.multi \in Nat
            /\ x.pendSub \in Nat
        BY <3>3 DEF AcceptConn
      <4> QED BY ONLY <3>1, <3>2, <4>1 DEF InSync
    <3>5. InSync(y, s[k], V("watch"), V("multi"), V("subscribe"))
      BY <2>2, <3>4, SameSync
    <3> QED BY <2>1, <3>5 DEF V
  <2> QED BY <2>2, <2>4, <2>5
<1>4. Leaves(h, g, s, u, q, p, k, r)
  BY ONLY <1>2, <1>3 DEF Leaves
<1>5. /\ Core(g, u, p)
      /\ \A d \in Client : SameAs(h.cc[d], g.cc[d]) /\ Attending(h, q, d) => Attending(g, p, d)
  BY <1>4, LeavesKeeps
<1>6. ASSUME NEW d \in Client, Attending(h, q, d) PROVE Attending(g, p, d)
  <2>1. CASE d # r[1] \/ Alive(h, d)
    BY <1>5, <1>6, <2>1 DEF Unheard
  <2>2. CASE ~Alive(h, d)
    BY <1>2, <2>2 DEF Alive, Apart, Attending
  <2> QED BY <2>1, <2>2
<1> QED BY <1>5, <1>6

\* Request r is the first of those on connection k that were sent.
IsHead(h, k, r) == h.sc[k].good /\ h.sc[k].sent # <<>> /\ r = Head(h.sc[k].sent)

\* The first request: its client has the connection, if that is private.
AtFront(h, k, r) ==
    /\ r \in Req /\ r[1] \in Client /\ On(QueuesOf(h), k, r)
    /\ QueuesOf(h)[k][1] = r /\ Len(QueuesOf(h)[k]) \in Nat /\ Len(QueuesOf(h)[k]) >= 1
    /\ Less(QueuesOf(h)[k], Tail(h.sc[k].sent) \o h.sc[k].send, r)
    /\ k \in Private => h.sc[k].acc = r[1] /\ h.cc[r[1]].conn = k
    /\ k = Shared => h.sc[k].acc = None /\ h.cc[r[1]].conn # k

\* The head of a connection is the first request on it.
LEMMA FrontIs ==
    ASSUME NEW h, NEW s, Fit(h, s), NEW k \in Conn, NEW r, IsHead(h, k, r)
    PROVE  AtFront(h, k, r)
<1> DEFINE a == h.sc[k].sent
           b == h.sc[k].send
           q == QueuesOf(h)
<1>0. h.sc[k].good /\ a # <<>> /\ r = Head(a)
  BY DEF IsHead
<1>1. State(h) /\ Pending(h, q) /\ Attached(h) /\ Once(q)
  BY DEF Fit, Core
<1>2. a \in Seq(Req) /\ b \in Seq(Req) /\ q[k] = a \o b
  BY <1>1 DEF State, ConnectConn, QueuesOf
<1>3. r \in Req /\ r[1] \in Client
  <2>1. r \in Req
    BY ONLY <1>2, <1>0
  <2> QED BY <2>1, Constants
<1>4. \A i, j \in 1..Len(a \o b) : (a \o b)[i] = (a \o b)[j] => i = j
  BY <1>1, <1>2 DEF Once
<1> HIDE DEF q
<1>5. /\ Less(a \o b, Tail(a) \o b, r) /\ Contains(a \o b, r)
      /\ (a \o b)[1] = r /\ Len(a \o b) \in Nat /\ Len(a \o b) >= 1
  BY ONLY <1>2, <1>4, <1>0, LessHead
<1>6. On(q, k, r)
  BY <1>2, <1>5 DEF On
<1>7. k \in Private => h.sc[k].acc = r[1]
  BY <1>0, <1>1, <1>3, <1>6 DEF Pending
<1>8. k = Shared => h.sc[k].acc = None
  BY <1>1, Constants DEF Attached
<1>9. /\ k \in Private => h.cc[r[1]].conn = k
      /\ k = Shared => h.cc[r[1]].conn # k
  <2>1. r[1] # None
    BY <1>3, Constants
  <2> QED BY <1>1, <1>3, <1>7, <1>8, <2>1 DEF Attached
<1> QED BY ONLY <1>2, <1>3, <1>5, <1>6, <1>7, <1>8, <1>9 DEF q, AtFront

\* The first request of connection k was taken, and client c is now y.
Fronted(h, f, k, c, y) ==
    /\ State(f) /\ f.req = h.req /\ f.idle = h.idle /\ f.postS = h.postS
    /\ \A d \in Client : f.cc[d] = IF d = c THEN y ELSE h.cc[d]
    /\ \A j \in Conn : /\ f.sc[j].link = h.sc[j].link /\ f.sc[j].good = h.sc[j].good
                       /\ f.sc[j].send = h.sc[j].send /\ f.sc[j].post = h.sc[j].post
                       /\ f.sc[j].acc = h.sc[j].acc /\ f.sc[j].next = h.sc[j].next
                       /\ f.sc[j].sent = IF j = k THEN Tail(h.sc[j].sent) ELSE h.sc[j].sent

\* What is left on the connections then.
LEMMA FrontedQueues ==
    ASSUME NEW h, NEW f, NEW k \in Conn, NEW c, NEW y, Fronted(h, f, k, c, y)
    PROVE  /\ QueuesOf(f) \in Queues
           /\ QueuesOf(f)[k] = Tail(h.sc[k].sent) \o h.sc[k].send
           /\ \A j \in Conn : j # k => QueuesOf(f)[j] = QueuesOf(h)[j]
<1>1. State(f)
  BY DEF Fronted
<1>2. \A j \in Conn : f.sc[j].sent \o f.sc[j].send \in Seq(Req)
  BY <1>1 DEF State, ConnectConn
<1>3. QueuesOf(f) \in Queues
  BY <1>2 DEF QueuesOf, Queues
<1> QED BY <1>3 DEF QueuesOf, Fronted

\* An answer of the shared connection changes no counters: what changes them opens
\* something, or its client has nothing open.
LEMMA SharedResponse ==
    ASSUME NEW x \in AcceptConn, NEW cmd, cmd \notin RequirePrivate,
           cmd \in Blocking => Nothing(x), NEW res, NEW z, z = Responded(x, cmd, res, FALSE)
    PROVE  Apart(x, z) /\ SameCounters(x, z) /\ z.block = (x.block /\ cmd \notin Blocking)
<1> DEFINE y == Unblocked(x, cmd)
<1>1. \A b \in BOOLEAN :
         /\ cmd = "unwatch" => Responded(x, cmd, res, b) = IF res = "ok" THEN Unwatch(y) ELSE y
         /\ cmd \in {"exec", "discard"} =>
              Responded(x, cmd, res, b) = IF y.multi > 0 /\ ~b THEN DecrMulti(Unwatch(y)) ELSE y
         /\ cmd \notin {"watch", "multi", "unwatch", "exec", "discard", "subscribe"} =>
              Responded(x, cmd, res, b) = y
  BY RespondedCases
<1>2. /\ Apart(x, y) /\ y.block = (x.block /\ cmd \notin Blocking) /\ SameCounters(x, y)
      /\ y \in AcceptConn
  BY ChangesAre, UnblockedIs
<1> HIDE DEF y
<1>3. CASE cmd = "unwatch" /\ res = "ok"
  <2>1. z = Unwatch(y)
    BY <1>1, <1>3
  <2>2. /\ Apart(y, z) /\ z.block = y.block
        /\ HasCounters(z, Minus(y.pendWatch, y.watch), 0, y.pendMulti, y.multi, y.pendSub, y.sub)
    BY <1>2, <2>1, ChangesAre
  <2>3. y.pendWatch = 0 /\ y.watch = 0
    BY <1>2, <1>3 DEF Blocking, Nothing, SameCounters, HasCounters
  <2>4. Minus(y.pendWatch, y.watch) = 0
    BY <2>3 DEF Minus
  <2>5. x.watch = 0 /\ x.pendWatch = 0
    BY <1>3 DEF Blocking, Nothing
  <2> QED BY <1>2, <2>2, <2>3, <2>4, <2>5 DEF Apart, SameCounters, HasCounters
<1>4. CASE cmd \in {"exec", "discard"}
  <2>1. y.multi = 0 /\ ~(y.multi > 0)
    BY <1>2, <1>4 DEF Blocking, Nothing, SameCounters, HasCounters
  <2>2. z = IF y.multi > 0 /\ ~FALSE THEN DecrMulti(Unwatch(y)) ELSE y
    BY <1>1, <1>4
  <2>3. z = y
    BY ONLY <2>1, <2>2
  <2> QED BY <1>2, <2>3
<1>5. CASE ~(cmd = "unwatch" /\ res = "ok") /\ cmd \notin {"exec", "discard"}
  <2>1. cmd \notin {"watch", "multi", "subscribe"}
    BY DEF RequirePrivate
  <2>2. z = y
    BY <1>1, <1>5, <2>1
  <2> QED BY <1>2, <2>2
<1> QED BY <1>3, <1>4, <1>5

\* On the shared connection no session begins.
LEMMA SharedReply ==
    ASSUME Orderly, NEW cmd, cmd \notin RequirePrivate, NEW a, Reply(Clean, cmd, a)
    PROVE  a[2] = Clean
<1>1. Clean \in Sessions /\ Clean.multi = FALSE /\ Clean.watch = FALSE /\ Clean.subs = 0
  BY DEF Clean, Sessions
<1>2. [Clean EXCEPT !.watch = FALSE] = Clean
  <2>1. \A e \in Sessions : e.watch = FALSE => [e EXCEPT !.watch = FALSE] = e
    BY DEF Sessions
  <2> QED BY ONLY <1>1, <2>1
<1>3. [Clean EXCEPT !.subs = Minus(@, 1)] = Clean
  <2>1. Minus(0, 1) = 0
    BY DEF Minus
  <2>2. [Clean EXCEPT !.subs = Minus(@, 1)] = [Clean EXCEPT !.subs = 0]
    BY <1>1, <2>1
  <2>3. [Clean EXCEPT !.subs = 0] = Clean
    <3>1. \A e \in Sessions : e.subs = 0 => [e EXCEPT !.subs = 0] = e
      BY DEF Sessions
    <3> QED BY ONLY <1>1, <3>1
  <2> QED BY <2>2, <2>3
<1>4. cmd \notin {"watch", "multi", "subscribe"}
  BY DEF RequirePrivate
<1> DEFINE s == Clean
<1>5. s = Clean
  OBVIOUS
<1> HIDE DEF s
<1>6. /\ cmd = "unwatch" => \/ a[1] # "ok" /\ a[2] = s
                            \/ a = <<"ok", [s EXCEPT !.watch = FALSE]>>
      /\ cmd \in {"exec", "discard"} =>
           IF s.multi THEN a[2] = Clean ELSE a = <<"err", s>>
      /\ cmd = "unsubscribe" => \/ a[1] \notin {"sub", "unsub"} /\ a[2] = s
                                \/ a = <<"unsub", [s EXCEPT !.subs = Minus(@, 1)]>>
      /\ cmd \notin {"watch", "multi", "subscribe", "unwatch", "exec", "discard",
                     "unsubscribe"} => a[2] = s
  <2>1. s \in Sessions /\ Reply(s, cmd, a)
    BY <1>1, <1>5
  <2> QED BY <1>4, <2>1, ReplyCases
<1>7. CASE cmd = "unwatch"
  <2>1. \/ a[2] = s
        \/ a = <<"ok", [s EXCEPT !.watch = FALSE]>>
    BY ONLY <1>6, <1>7
  <2>2. [s EXCEPT !.watch = FALSE] = s
    BY ONLY <1>2, <1>5
  <2>3. a = <<"ok", s>> => a[2] = s
    OBVIOUS
  <2> QED BY ONLY <1>5, <2>1, <2>2, <2>3
<1>8. CASE cmd \in {"exec", "discard"}
  BY <1>1, <1>5, <1>6, <1>8
<1>9. CASE cmd = "unsubscribe"
  <2>1. \/ a[2] = s
        \/ a = <<"unsub", [s EXCEPT !.subs = Minus(@, 1)]>>
    BY ONLY <1>6, <1>9
  <2> QED BY ONLY <1>3, <1>5, <2>1
<1>10. CASE cmd \notin {"unwatch", "exec", "discard", "unsubscribe"}
  BY ONLY <1>4, <1>5, <1>6, <1>10
<1> QED BY <1>7, <1>8, <1>9, <1>10

\* An answer leaves a session.
LEMMA ReplySession ==
    ASSUME NEW s \in Sessions, NEW cmd, NEW a, Reply(s, cmd, a)
    PROVE  a[2] \in Sessions /\ a[1] \in {"ok", "data", "queued", "err", "sub", "unsub"}
<1>1. CASE a = Served(s, cmd)
  BY <1>1, ServedIs
<1>2. CASE a = <<"err", s>>
  BY <1>2
<1> QED BY <1>1, <1>2 DEF Reply

\* Answer a to request r, the first on connection k, is read.
Answering(h, s, k, r, a) ==
    /\ IsHead(h, k, r) /\ Open(h.sc[k])
    /\ Reply(s[k], h.req[r].cmd, a)

\* The client of r when its subscriptions have been counted.
Recount(h, k, r, a) ==
    IF k \in Private /\ InSub(h.cc[r[1]])
    THEN Counted(h.cc[r[1]], h.req[r].cmd, a[1], a[2].subs) ELSE h.cc[r[1]]

\* What is known of the request and its client then.
LEMMA AnsweringIs ==
    ASSUME NEW h, NEW s, Fit(h, s), NEW k \in Conn, NEW r, NEW a, Answering(h, s, k, r, a)
    PROVE  /\ r \in Req /\ r[1] \in Client /\ h.cc[r[1]] \in AcceptConn
           /\ s[k] \in Sessions /\ a[2] \in Sessions
           /\ h.req[r].cmd \in Uses[r[1]] \cup {"none", "submsg"}
           /\ k = Shared => s[k] = Clean /\ h.req[r].cmd \notin RequirePrivate
           /\ Alive(h, r[1]) => OneUse(h.cc[r[1]], r[1])
           /\ h.cc[r[1]].conn = k /\ Alive(h, r[1]) =>
                InSync(h.cc[r[1]], s[k], Count(h, QueuesOf(h), k, "watch"),
                       Count(h, QueuesOf(h), k, "multi"), Count(h, QueuesOf(h), k, "subscribe"))
<1> DEFINE q == QueuesOf(h)
<1>1. /\ State(h) /\ s \in [Conn -> Sessions] /\ Pending(h, q) /\ Counts(h, s, q)
      /\ Cleared(h, s) /\ Known(h)
  BY DEF Fit, Core
<1>2. /\ IsHead(h, k, r) /\ h.sc[k].good /\ Open(h.sc[k])
      /\ Reply(s[k], h.req[r].cmd, a)
  BY DEF Answering, IsHead
<1>3. /\ r \in Req /\ r[1] \in Client /\ On(q, k, r)
      /\ k = Shared => h.sc[k].acc = None /\ h.cc[r[1]].conn # k
  BY <1>2, FrontIs DEF AtFront
<1>4. h.cc[r[1]] \in AcceptConn
  BY <1>1, <1>3 DEF State
<1>5. s[k] \in Sessions
  BY <1>1
<1>6. a[2] \in Sessions
  BY <1>2, <1>5, ReplySession
<1>7. h.req[r].cmd \in Uses[r[1]] \cup {"none", "submsg"}
  BY <1>1, <1>3 DEF Known
<1>8. k = Shared => s[k] = Clean
  BY <1>1, <1>2, <1>3 DEF Cleared
<1>9. k = Shared => h.req[r].cmd \notin RequirePrivate
  BY <1>1, <1>3 DEF Pending
<1>10. Alive(h, r[1]) => OneUse(h.cc[r[1]], r[1])
  BY <1>1, <1>3 DEF Counts
<1>11. h.cc[r[1]].conn = k /\ Alive(h, r[1]) =>
         InSync(h.cc[r[1]], s[k], Count(h, q, k, "watch"),
                Count(h, q, k, "multi"), Count(h, q, k, "subscribe"))
  BY <1>1, <1>3, Constants DEF Counts
<1> QED BY ONLY <1>3, <1>4, <1>5, <1>6, <1>7, <1>8, <1>9, <1>10, <1>11 DEF q

\* The answer is not for a client that is served, or it tells it nothing.
LEMMA IgnoredUnheard ==
    ASSUME Orderly, NEW h, NEW s, Fit(h, s), NEW k \in Conn, NEW r, NEW a,
           Answering(h, s, k, r, a), NEW f, Fronted(h, f, k, r[1], Recount(h, k, r, a)),
           ~Heeded(f, r), NEW u, u = [s EXCEPT ![k] = a[2]]
    PROVE  Unheard(h, f, s, u, QueuesOf(h), QueuesOf(f), k, r)
<1> DEFINE q == QueuesOf(h)
           p == QueuesOf(f)
           cmd == h.req[r].cmd
           x == h.cc[r[1]]
           y == Recount(h, k, r, a)
<1>1. /\ State(h) /\ s \in [Conn -> Sessions] /\ Pending(h, q) /\ Attached(h) /\ Known(h)
  BY DEF Fit, Core
<1>2. /\ IsHead(h, k, r) /\ h.sc[k].good /\ Open(h.sc[k])
      /\ Reply(s[k], cmd, a)
  BY DEF Answering, IsHead
<1>3. /\ On(q, k, r) /\ Less(q[k], Tail(h.sc[k].sent) \o h.sc[k].send, r)
      /\ k \in Private => h.sc[k].acc = r[1]
  BY <1>2, FrontIs DEF AtFront
<1>4. /\ r \in Req /\ r[1] \in Client /\ x \in AcceptConn
      /\ s[k] \in Sessions /\ a[2] \in Sessions
      /\ k = Shared => s[k] = Clean /\ cmd \notin RequirePrivate
  BY AnsweringIs
<1>5. /\ p \in Queues /\ p[k] = Tail(h.sc[k].sent) \o h.sc[k].send
      /\ \A j \in Conn : j # k => p[j] = q[j]
  BY FrontedQueues
<1>6. /\ State(f) /\ f.req = h.req
      /\ \A d \in Client : f.cc[d] = IF d = r[1] THEN y ELSE h.cc[d]
      /\ \A j \in Conn : /\ f.sc[j].link = h.sc[j].link /\ f.sc[j].good = h.sc[j].good
                         /\ f.sc[j].acc = h.sc[j].acc
  BY DEF Fronted
<1>7. /\ Apart(x, y)
      /\ a[1] \notin {"sub", "unsub"} /\ cmd # "subscribe" => y = x
  <2>1. a[2].subs \in Nat
    BY <1>4 DEF Sessions
  <2>2. CASE k \in Private
    <3>1. y = IF InSub(x) THEN Counted(x, cmd, a[1], a[2].subs) ELSE x
      BY <2>2 DEF Recount
    <3> HIDE DEF y, x, cmd
    <3> QED BY <1>4, <2>1, <3>1, CountedCases
  <2>3. CASE k \notin Private
    BY <2>3 DEF Recount, Apart
  <2> QED BY <2>2, <2>3
<1>8. cmd \in Empty => a[2] = s[k] /\ a[1] \notin {"sub", "unsub"} /\ cmd # "subscribe"
  <2> HAVE cmd \in Empty
  <2>1. cmd \notin {"watch", "multi", "subscribe", "unwatch", "exec", "discard", "unsubscribe"}
    BY DEF Empty
  <2> HIDE DEF cmd
  <2> QED BY <1>2, <1>4, <2>1, ReplyCases
<1>9. Alive(h, r[1]) => cmd \in Empty
  <2>1. ASSUME Alive(h, r[1]), cmd \notin Empty
        PROVE  FALSE
    <3>1. Contains(x.requests, r)
      BY <1>1, <1>3, <1>4, <2>1 DEF Pending
    <3>2. f.cc[r[1]].requests = x.requests /\ f.cc[r[1]].good = x.good
      BY <1>4, <1>6, <1>7 DEF Apart
    <3> QED BY <2>1, <3>1, <3>2 DEF Heeded, Alive
  <2> QED BY <2>1
<1>10. h.sc[k].acc = None \/ Alive(h, r[1]) => u[k] = s[k]
  <2>1. u[k] = a[2]
    BY <1>1
  <2>2. CASE Alive(h, r[1])
    BY <1>8, <1>9, <2>1, <2>2
  <2>3. CASE h.sc[k].acc = None
    <3>1. k = Shared
      BY <1>3, <1>4, <2>3, Constants
    <3>2. s[k] = Clean /\ cmd \notin RequirePrivate
      BY <1>4, <3>1
    <3>3. Reply(Clean, cmd, a)
      BY <1>2, <3>2
    <3> HIDE DEF cmd
    <3>4. a[2] = Clean
      BY <3>2, <3>3, SharedReply
    <3> QED BY <2>1, <3>2, <3>4
  <2> QED BY <2>2, <2>3
<1>11. \A j \in Conn : j # k => u[j] = s[j]
  BY <1>1
<1>12. u \in [Conn -> Sessions]
  BY <1>1, <1>4
<1>13. \A d \in Client : /\ Apart(h.cc[d], f.cc[d])
                         /\ d # r[1] \/ Alive(h, d) => SameAs(h.cc[d], f.cc[d])
  <2> TAKE d \in Client
  <2>0. \A e : SameAs(e, e) /\ Apart(e, e)
    BY DEF SameAs, Apart, SameCounters, HasCounters
  <2>1. CASE d # r[1]
    BY <1>6, <2>0, <2>1
  <2>2. CASE d = r[1]
    <3>1. f.cc[d] = y
      BY <1>6, <2>2
    <3>2. Alive(h, d) => y = x
      BY <1>7, <1>8, <1>9, <2>2
    <3> HIDE DEF y
    <3> QED BY <1>7, <2>0, <2>2, <3>1, <3>2
  <2> QED BY <2>1, <2>2
<1>14. Known(f)
  BY <1>1, <1>6 DEF Known
<1>15. Less(q[k], p[k], r)
  BY <1>3, <1>5
<1> QED BY ONLY <1>3, <1>5, <1>6, <1>9, <1>10, <1>11, <1>12, <1>13, <1>14, <1>15 DEF Unheard

\* The client of r notices: its counters and its session are in step afterwards.
LEMMA HeardCounts ==
    ASSUME Orderly, NEW h, NEW s, Fit(h, s), NEW k \in Conn, NEW r, NEW a,
           Answering(h, s, k, r, a), Alive(h, r[1]),
           NEW e, \A t \in Req : e.req[t].cmd = h.req[t].cmd,
           NEW p, \A t \in Req : On(p, k, t) <=> On(QueuesOf(h), k, t) /\ t # r,
           NEW z, z = Responded(Recount(h, k, r, a), h.req[r].cmd, Res(a), FALSE)
    PROVE  /\ Apart(h.cc[r[1]], z)
           /\ z.block = (h.cc[r[1]].block /\ h.req[r].cmd \notin Blocking)
           /\ OneUse(z, r[1])
           /\ IF k \in Private
              THEN /\ InSync(z, a[2], Count(e, p, k, "watch"), Count(e, p, k, "multi"),
                             Count(e, p, k, "subscribe"))
                   /\ h.req[r].cmd \notin Blocking /\ Holds(h.cc[r[1]]) => Holds(z)
              ELSE SameCounters(h.cc[r[1]], z)
<1> DEFINE q == QueuesOf(h)
           cmd == h.req[r].cmd
           c == r[1]
           x == h.cc[c]
           y == Recount(h, k, r, a)
           W(n) == Count(h, q, k, n)
           V(n) == Count(e, p, k, n)
<1>1. AtFront(h, k, r) /\ Reply(s[k], cmd, a)
  BY FrontIs DEF Answering
<1>2. /\ r \in Req /\ c \in Client /\ On(q, k, r)
      /\ k \in Private => x.conn = k
  BY <1>1 DEF AtFront
<1>3. /\ x \in AcceptConn /\ s[k] \in Sessions /\ a[2] \in Sessions
      /\ cmd \in Uses[c] \cup {"none", "submsg"}
      /\ k = Shared => cmd \notin RequirePrivate
      /\ OneUse(x, c)
      /\ x.conn = k => InSync(x, s[k], W("watch"), W("multi"), W("subscribe"))
  BY AnsweringIs
<1>4. CASE k \in Private
  <2>1. InSync(x, s[k], W("watch"), W("multi"), W("subscribe"))
    BY <1>2, <1>3, <1>4
  <2>2. y = IF InSub(x) THEN Counted(x, cmd, a[1], a[2].subs) ELSE x
    BY <1>4 DEF Recount
  <2>3. \A n : /\ V(n) + (IF cmd = n THEN 1 ELSE 0) <= W(n)
               /\ V(n) \in Nat /\ W(n) \in Nat
    <3> TAKE n
    <3>1. V(n) + (IF h.req[r].cmd = n THEN 1 ELSE 0) <= W(n)
      BY ONLY <1>2, \A t \in Req : e.req[t].cmd = h.req[t].cmd,
              \A t \in Req : On(p, k, t) <=> On(QueuesOf(h), k, t) /\ t # r, CountLess
    <3> QED BY <3>1, CountIs
  <2> HIDE DEF y, cmd, V, W, x, c
  <2>4. /\ Apart(x, z) /\ z.block = (x.block /\ cmd \notin Blocking)
        /\ OneUse(z, c) /\ InSync(z, a[2], V("watch"), V("multi"), V("subscribe"))
        /\ cmd \notin Blocking /\ Holds(x) => Holds(z)
    <3>1. z = Responded(y, cmd, Res(a), FALSE)
      BY DEF y, cmd
    <3>2. /\ V("watch") \in Nat /\ V("multi") \in Nat /\ V("subscribe") \in Nat
          /\ W("watch") \in Nat /\ W("multi") \in Nat /\ W("subscribe") \in Nat
          /\ V("watch") + (IF cmd = "watch" THEN 1 ELSE 0) <= W("watch")
          /\ V("multi") + (IF cmd = "multi" THEN 1 ELSE 0) <= W("multi")
          /\ V("subscribe") + (IF cmd = "subscribe" THEN 1 ELSE 0) <= W("subscribe")
      BY ONLY <2>3
    <3>3. /\ Reply(s[k], cmd, a) /\ c \in Client /\ x \in AcceptConn /\ s[k] \in Sessions
          /\ cmd \in Uses[c] \cup {"none", "submsg"} /\ OneUse(x, c)
      BY ONLY <1>1, <1>2, <1>3
    <3>4. Replied(x, c, s[k], cmd, a, y, z, W("watch"), W("multi"), W("subscribe"),
                  V("watch"), V("multi"), V("subscribe"))
      BY ONLY <2>1, <2>2, <3>1, <3>2, <3>3 DEF Replied
    <3> QED BY ONLY Orderly, <3>4, ReplyCounts
  <2> QED BY <1>4, <2>4 DEF V, cmd, x, c
<1>5. CASE k \notin Private
  <2>1. k = Shared
    BY <1>5, Constants
  <2>2. y = x
    BY <1>5 DEF Recount
  <2>3. cmd \in Blocking => Nothing(x)
    <3>1. Blocked(h, q) /\ Counts(h, s, q)
      BY DEF Fit, Core
    <3>2. cmd \in Blocking => x.conn = None
      BY <1>2, <2>1, <3>1 DEF Blocked
    <3> QED BY <1>2, <3>1, <3>2 DEF Counts
  <2>4. z = Responded(x, cmd, Res(a), FALSE)
    BY <2>2
  <2>5. cmd \notin RequirePrivate
    BY <1>3, <2>1
  <2> HIDE DEF cmd, x, y
  <2>6. Apart(x, z) /\ SameCounters(x, z) /\ z.block = (x.block /\ cmd \notin Blocking)
    BY ONLY <1>3, <2>3, <2>4, <2>5, SharedResponse
  <2>7. OneUse(z, c)
    BY <1>3, <2>6, SameSync
  <2> QED BY <1>5, <2>6, <2>7 DEF x, cmd
<1> QED BY <1>4, <1>5

\* Answer a is heeded: f when its request was taken, e when it was answered.
Hearing(h, s, k, r, a, f, e, u) ==
    /\ Answering(h, s, k, r, a) /\ Fronted(h, f, k, r[1], Recount(h, k, r, a))
    /\ Heeded(f, r) /\ Answered(f, e, r, Res(a), FALSE)
    /\ u = [s EXCEPT ![k] = a[2]]

\* An answer that is heeded takes its request off the connection.
LEMMA HeardLeaves ==
    ASSUME Orderly, NEW h, NEW s, Fit(h, s), Delivered(h), NEW k \in Conn, NEW r, NEW a,
           NEW f, NEW e, NEW u, Hearing(h, s, k, r, a, f, e, u)
    PROVE  /\ Leaves(h, e, s, u, QueuesOf(h), QueuesOf(e), k, r) /\ Alive(h, r[1])
           /\ h.req[r].cmd \notin Blocking =>
                /\ k \in Private /\ Holds(h.cc[r[1]]) => Holds(e.cc[r[1]])
                /\ k \notin Private => SameAs(h.cc[r[1]], e.cc[r[1]])
<1>0. /\ Answering(h, s, k, r, a) /\ Fronted(h, f, k, r[1], Recount(h, k, r, a))
      /\ Heeded(f, r) /\ Answered(f, e, r, Res(a), FALSE)
      /\ u = [s EXCEPT ![k] = a[2]]
  BY DEF Hearing
<1> USE <1>0
<1> DEFINE q == QueuesOf(h)
           p == QueuesOf(e)
           cmd == h.req[r].cmd
           c == r[1]
           x == h.cc[c]
           y == Recount(h, k, r, a)
           z == Responded(y, cmd, Res(a), FALSE)
           v == e.cc[c]
<1>1. /\ State(h) /\ s \in [Conn -> Sessions] /\ Attached(h) /\ Known(h)
  BY DEF Fit, Core
<1>2. IsHead(h, k, r) /\ h.sc[k].good /\ Open(h.sc[k]) /\ Reply(s[k], cmd, a)
  BY DEF Answering, IsHead
<1>3. /\ r \in Req /\ c \in Client /\ On(q, k, r)
      /\ Less(q[k], Tail(h.sc[k].sent) \o h.sc[k].send, r)
      /\ k \in Private => h.sc[k].acc = c /\ x.conn = k
      /\ k = Shared => x.conn # k
  BY <1>2, FrontIs DEF AtFront
<1>4. /\ x \in AcceptConn /\ a[2] \in Sessions
      /\ k = Shared => s[k] = Clean /\ cmd \notin RequirePrivate
  BY AnsweringIs
<1>5. /\ State(f) /\ f.req = h.req
      /\ \A d \in Client : f.cc[d] = IF d = c THEN y ELSE h.cc[d]
      /\ \A j \in Conn : /\ f.sc[j].link = h.sc[j].link /\ f.sc[j].good = h.sc[j].good
                         /\ f.sc[j].acc = h.sc[j].acc
  BY DEF Fronted
<1>6. /\ State(e) /\ e.sc = f.sc
      /\ e.req = [f.req EXCEPT ![r].res = Res(a)]
      /\ \A d \in Client : d # c => SameAs(f.cc[d], e.cc[d])
      /\ SameAs(Responded(f.cc[c], f.req[r].cmd, Res(a), FALSE), v)
  BY DEF Answered
<1>7. SameAs(z, v)
  BY <1>3, <1>5, <1>6
<1>8. /\ QueuesOf(f) \in Queues /\ QueuesOf(f)[k] = Tail(h.sc[k].sent) \o h.sc[k].send
      /\ \A j \in Conn : j # k => QueuesOf(f)[j] = q[j]
      /\ p = QueuesOf(f)
  <2>1. p = QueuesOf(f)
    BY <1>6 DEF QueuesOf
  <2>2. /\ QueuesOf(f) \in Queues /\ QueuesOf(f)[k] = Tail(h.sc[k].sent) \o h.sc[k].send
        /\ \A j \in Conn : j # k => QueuesOf(f)[j] = q[j]
    BY ONLY k \in Conn, <1>0, FrontedQueues
  <2> QED BY ONLY <2>1, <2>2
<1>9. /\ p \in Queues /\ Less(q[k], p[k], r)
      /\ \A j \in Conn : j # k => p[j] = q[j]
  BY <1>3, <1>8
<1>10. \A t \in Req : /\ e.req[t].cmd = h.req[t].cmd
                      /\ t # r => e.req[t] = h.req[t]
  BY <1>1, <1>5, <1>6 DEF State, Request
<1>11. Alive(h, c)
  <2>1. Apart(x, y)
    <3>1. a[2].subs \in Nat
      BY <1>4 DEF Sessions
    <3>2. CASE k \in Private
      <4>1. y = IF InSub(x) THEN Counted(x, cmd, a[1], a[2].subs) ELSE x
        BY <3>2 DEF Recount
      <4> HIDE DEF y, x, cmd
      <4> QED BY <1>4, <3>1, <4>1, CountedCases
    <3>3. CASE k \notin Private
      BY <3>3 DEF Recount, Apart
    <3> QED BY <3>2, <3>3
  <2>2. Contains(y.requests, r) /\ y.good
    BY <1>3, <1>5 DEF Heeded
  <2>3. Contains(x.requests, r) /\ x.good
    BY <2>1, <2>2 DEF Apart
  <2>4. x.requests # <<>>
    BY <2>3 DEF Contains
  <2> QED BY <1>1, <1>3, <2>3, <2>4 DEF Attached, Alive
<1>12. \A t \in Req : On(p, k, t) <=> On(q, k, t) /\ t # r
  BY <1>9 DEF Less, On
<1>13. /\ Apart(x, z) /\ z.block = (x.block /\ cmd \notin Blocking) /\ OneUse(z, c)
       /\ IF k \in Private
          THEN /\ InSync(z, a[2], Count(e, p, k, "watch"), Count(e, p, k, "multi"),
                         Count(e, p, k, "subscribe"))
               /\ cmd \notin Blocking /\ Holds(x) => Holds(z)
          ELSE SameCounters(x, z)
  <2>1. \A t \in Req : e.req[t].cmd = h.req[t].cmd
    BY <1>10
  <2> HIDE DEF p
  <2> QED BY ONLY Orderly, Fit(h, s), k \in Conn, <1>0, <1>11, <1>12, <2>1,
                  HeardCounts
<1> HIDE DEF z
<1>14. /\ Apart(x, v) /\ v.block = (x.block /\ cmd \notin Blocking) /\ OneUse(v, c)
       /\ IF k \in Private
          THEN /\ InSync(v, a[2], Count(e, p, k, "watch"), Count(e, p, k, "multi"),
                         Count(e, p, k, "subscribe"))
               /\ cmd \notin Blocking /\ Holds(x) => Holds(v)
          ELSE SameCounters(x, v)
  <2>1. Apart(z, v) /\ v.block = z.block /\ SameCounters(z, v)
    BY <1>7 DEF SameAs
  <2> HIDE DEF v, x, p, cmd
  <2>2. Apart(x, v) /\ v.block = (x.block /\ cmd \notin Blocking)
    BY <1>13, <2>1 DEF Apart
  <2>3. OneUse(v, c)
    BY <1>13, <2>1, SameSync
  <2>4. CASE k \in Private
    <3>1. InSync(v, a[2], Count(e, p, k, "watch"), Count(e, p, k, "multi"),
                 Count(e, p, k, "subscribe"))
      BY <1>13, <2>1, <2>4, SameSync
    <3>2. cmd \notin Blocking /\ Holds(x) => Holds(v)
      BY <1>13, <2>1, <2>4, SameHolds
    <3> QED BY <2>2, <2>3, <2>4, <3>1, <3>2
  <2>5. CASE k \notin Private
    <3>1. SameCounters(x, v)
      BY <1>13, <2>1, <2>5 DEF SameCounters, HasCounters
    <3> QED BY <2>2, <2>3, <2>5, <3>1
  <2> QED BY <2>4, <2>5
<1>15. /\ \A j \in Conn : j # k => u[j] = s[j]
       /\ u \in [Conn -> Sessions] /\ u[k] = a[2]
  BY <1>1, <1>4
<1>16. h.sc[k].acc = None => u[k] = s[k]
  <2>1. ASSUME h.sc[k].acc = None PROVE a[2] = s[k]
    <3>1. k = Shared
      BY <1>3, <2>1, Constants
    <3>2. s[k] = Clean /\ cmd \notin RequirePrivate
      BY <1>4, <3>1
    <3>3. Reply(Clean, cmd, a)
      BY <1>2, <3>2
    <3> HIDE DEF cmd
    <3>4. a[2] = Clean
      BY <3>2, <3>3, SharedReply
    <3> QED BY <3>2, <3>4
  <2> QED BY <1>15, <2>1
<1>17. \A j \in Conn : /\ e.sc[j].link = h.sc[j].link /\ e.sc[j].good = h.sc[j].good
                       /\ e.sc[j].acc = h.sc[j].acc
  BY <1>5, <1>6
<1>18. \A d \in Client : /\ Apart(h.cc[d], e.cc[d])
                         /\ d # c => SameAs(h.cc[d], e.cc[d])
  BY <1>5, <1>6, <1>14 DEF SameAs
<1>19. cmd \notin Blocking => v.block = x.block
  <2>1. x.block \in BOOLEAN
    BY <1>4 DEF AcceptConn
  <2> QED BY <1>14, <2>1
<1>20. Known(e)
  <2>1. h.req[r].delivered
    BY <1>1, <1>3, OnDelivered
  <2>2. e.req[r].delivered = h.req[r].delivered
    BY <1>1, <1>3, <1>5, <1>6 DEF State, Request
  <2>3. \A t \in Req : t = r \/ e.req[t] = h.req[t]
    BY <1>10
  <2> QED BY <1>1, <1>10, <2>1, <2>2, <2>3 DEF Known
<1>21. IF x.conn = k
       THEN InSync(v, u[k], Count(e, p, k, "watch"), Count(e, p, k, "multi"),
                   Count(e, p, k, "subscribe"))
       ELSE SameCounters(x, v)
  BY <1>3, <1>14, <1>15, Constants
<1>22. Leaves(h, e, s, u, q, p, k, r)
  BY ONLY <1>3, <1>6, <1>9, <1>10, <1>14, <1>15, <1>16, <1>17, <1>18, <1>19, <1>20, <1>21 DEF Leaves
<1>23. k \notin Private /\ cmd \notin Blocking => SameAs(x, v)
  BY <1>14, <1>19 DEF SameAs
<1> QED BY ONLY <1>11, <1>14, <1>22, <1>23

\* A client with nothing left has nothing queued on its connection either, and its
\* session has ended.
LEMMA HeardKeeps ==
    ASSUME Orderly, NEW h, NEW s, Fit(h, s), Delivered(h), NEW k \in Conn, NEW r, NEW a,
           NEW f, NEW e, NEW u, Hearing(h, s, k, r, a, f, e, u)
    PROVE  /\ Core(e, u, QueuesOf(e))
           /\ \A d \in Client : d # r[1] \/ k \notin Private \/ Holds(e.cc[d])
                                => Attending(e, QueuesOf(e), d)
           /\ k \in Private /\ ~Holds(e.cc[r[1]]) =>
                /\ Nothing(e.cc[r[1]]) /\ u[k] = Clean /\ e.cc[r[1]].conn = k
                /\ \A t \in Req : ~On(QueuesOf(e), k, t)
<1> DEFINE q == QueuesOf(h)
           p == QueuesOf(e)
           cmd == h.req[r].cmd
           c == r[1]
           x == h.cc[c]
           v == e.cc[c]
<1>1. /\ Leaves(h, e, s, u, q, p, k, r) /\ Alive(h, c)
      /\ cmd \notin Blocking => /\ k \in Private /\ Holds(x) => Holds(v)
                                /\ k \notin Private => SameAs(x, v)
  BY HeardLeaves
<1>2. /\ Core(h, s, q) /\ \A d \in Client : Attending(h, q, d)
  BY DEF Fit
<1>3. IsHead(h, k, r)
  BY DEF Hearing, Answering
<1>4. /\ r \in Req /\ c \in Client /\ On(q, k, r) /\ q[k][1] = r
      /\ Len(q[k]) \in Nat /\ Len(q[k]) >= 1
      /\ k \in Private => x.conn = k
  BY <1>3, FrontIs DEF AtFront
<1> HIDE DEF q, p
<1>5. /\ Core(e, u, p)
      /\ \A d \in Client : SameAs(h.cc[d], e.cc[d]) /\ Attending(h, q, d) => Attending(e, p, d)
  BY <1>1, <1>2, <1>4, LeavesKeeps
<1>6. /\ \A d \in Client : Apart(h.cc[d], e.cc[d]) /\ (d # c => SameAs(h.cc[d], e.cc[d]))
      /\ Less(q[k], p[k], r)
  BY <1>1 DEF Leaves
<1>7. ASSUME NEW d \in Client, d # c \/ k \notin Private \/ Holds(e.cc[d])
      PROVE  Attending(e, p, d)
  <2>1. CASE d # c
    BY <1>2, <1>5, <1>6, <2>1
  <2>2. CASE Holds(e.cc[d])
    BY <2>2 DEF Attending
  <2>3. CASE d = c /\ k \notin Private
    <3>1. CASE cmd \notin Blocking
      BY <1>1, <1>2, <1>5, <2>3, <3>1
    <3>2. CASE cmd \in Blocking
      <4>1. k = Shared
        BY <2>3, Constants
      <4>2. x.conn = None
        BY <1>1, <1>2, <1>4, <3>2, <4>1 DEF Core, Blocked
      <4>3. v.conn = None
        BY <1>4, <1>6, <4>2 DEF Apart
      <4> QED BY <2>3, <4>3 DEF Attending
    <3> QED BY <3>1, <3>2
  <2> QED BY <1>7, <2>1, <2>2, <2>3
<1>8. ASSUME k \in Private, ~Holds(v)
      PROVE  /\ Nothing(v) /\ u[k] = Clean /\ v.conn = k
             /\ \A t \in Req : ~On(p, k, t)
  <2>1. v.conn = k /\ Alive(e, c) /\ k # None
    BY <1>1, <1>4, <1>6, <1>8, Constants DEF Apart, Alive
  <2>2. v \in AcceptConn /\ u[k] \in Sessions /\ Counts(e, u, p)
    BY <1>4, <1>5 DEF Core, State
  <2>3. InSync(v, u[k], Count(e, p, k, "watch"), Count(e, p, k, "multi"),
               Count(e, p, k, "subscribe"))
    BY <1>4, <2>1, <2>2 DEF Counts
  <2>4. Nothing(v) /\ u[k] = Clean
    <3>1. \A n : Count(e, p, k, n) \in Nat
      BY CountIs
    <3> HIDE DEF v
    <3> QED BY <1>8, <2>2, <2>3, <3>1, NothingHeld
  <2>5. cmd \in Blocking
    <3>1. CASE Holds(x)
      BY <1>1, <1>8, <3>1
    <3>2. CASE ~Holds(x)
      <4>1. Attending(h, q, c) /\ x.conn # None /\ x.conn = k
        BY <1>2, <1>4, <1>8, Constants
      <4> QED BY <1>1, <1>4, <3>2, <4>1 DEF Attending
    <3> QED BY <3>1, <3>2
  <2>6. q[k][Len(q[k])] = r
    BY <1>1, <1>2, <1>4, <1>8, <2>5 DEF Core, Blocked
  <2>7. Len(q[k]) = 1
    <3>1. \A i, j \in 1..Len(q[k]) : q[k][i] = q[k][j] => i = j
      BY <1>2 DEF Core, Once
    <3>2. 1 \in 1..Len(q[k]) /\ Len(q[k]) \in 1..Len(q[k])
      BY <1>4
    <3> QED BY <1>4, <2>6, <3>1, <3>2
  <2>8. ASSUME NEW t \in Req, On(p, k, t) PROVE FALSE
    <3>1. Contains(q[k], t) /\ t # r
      BY <1>6, <2>8 DEF Less, On
    <3>2. PICK i \in 1..Len(q[k]) : q[k][i] = t
      BY <3>1 DEF Contains
    <3>3. i = 1
      BY <2>7, <3>2
    <3> QED BY <1>4, <3>1, <3>2, <3>3
  <2> QED BY <2>1, <2>4, <2>8
<1> QED BY <1>5, <1>7, <1>8 DEF p

\* A connection without requests has no events, unless it went wrong.
LEMMA QuietIs ==
    ASSUME NEW h, State(h), Posted(h), NEW k \in Conn, h.sc[k].good,
           \A t \in Req : ~On(QueuesOf(h), k, t)
    PROVE  h.sc[k].post = {} /\ h.sc[k].send = <<>>
<1> DEFINE a == h.sc[k].sent
           b == h.sc[k].send
<1>1. a \in Seq(Req) /\ b \in Seq(Req) /\ h.sc[k].post \in SUBSET Event
  BY DEF State, ConnectConn
<1>2. ASSUME b # <<>> PROVE FALSE
  <2>1. Head(b) \in Req /\ Contains(b, Head(b))
    <3>1. Len(b) \in Nat /\ Len(b) >= 1
      BY <1>1, <1>2
    <3>2. 1 \in 1..Len(b) /\ b[1] = Head(b) /\ b[1] \in Req
      BY <1>1, <3>1
    <3> QED BY <1>1, <3>2 DEF Contains
  <2>2. Contains(a \o b, Head(b))
    BY <1>1, <2>1, BothContain
  <2>3. QueuesOf(h)[k] = a \o b
    BY DEF QueuesOf
  <2> QED BY <2>1, <2>2, <2>3 DEF On
<1> QED BY <1>2 DEF Posted

\* A private connection without requests is put back by its client, which has
\* nothing open.
LEMMA PutBackFits ==
    ASSUME NEW e, NEW s, Core(e, s, QueuesOf(e)), Posted(e), NEW v, NEW w, InLists(e, v, w),
           NEW c \in Client, NEW k \in Private, e.sc[k].good, e.sc[k].link # "none",
           \A d \in Client : d # c => Attending(e, QueuesOf(e), d),
           e.cc[c].conn = k, Nothing(e.cc[c]), s[k] = Clean,
           \A t \in Req : ~On(QueuesOf(e), k, t),
           NEW g, g = Detach(PutPrivate(e, k), c, k)
    PROVE  Fit(g, s) /\ \E u : InLists(g, u, w)
<1> DEFINE p == QueuesOf(e)
           m == PutPrivate(e, k)
<1>1. State(e) /\ Known(e) /\ Attached(e) /\ k \in Conn
  BY Constants DEF Core
<1>2. /\ State(m) /\ m.cc = e.cc /\ m.req = e.req /\ m.postS = e.postS
      /\ \A j \in Conn : /\ SameConn(e.sc[j], m.sc[j])
                         /\ m.sc[j].post = e.sc[j].post /\ m.sc[j].acc = e.sc[j].acc
  BY <1>1, PushedIdle DEF PutPrivate
<1>3. g = Detach(m, c, k)
  OBVIOUS
<1>20. m = PutPrivate(e, k)
  OBVIOUS
<1> HIDE DEF m
<1>4. QueuesOf(m) = p
  BY <1>2, QueuesSame DEF SameConn
<1>5. Core(m, s, p) /\ \A d \in Client : Attending(e, p, d) => Attending(m, p, d)
  <2>1. \A j \in Conn : /\ m.sc[j].link = e.sc[j].link /\ m.sc[j].good = e.sc[j].good
                        /\ m.sc[j].acc = e.sc[j].acc
    BY <1>2 DEF SameConn
  <2>2. Like(e, m, p)
    BY <1>1, <1>2, <2>1, LikeSame
  <2> HIDE DEF p
  <2> QED BY <2>2, LikeKeeps DEF p
<1>6. /\ State(g) /\ g.req = m.req /\ g.idle = m.idle /\ g.postS = m.postS
      /\ \A j \in Conn : j # k => g.sc[j] = m.sc[j]
      /\ g.sc[k].acc = None /\ SameConn(m.sc[k], g.sc[k])
      /\ g.sc[k].post = m.sc[k].post /\ g.sc[k].next = m.sc[k].next
  BY <1>1, <1>2, <1>3, DetachIs
<1>7. \A j \in Conn : /\ SameConn(m.sc[j], g.sc[j]) /\ g.sc[j].post = m.sc[j].post
                      /\ g.sc[j].next = m.sc[j].next
                      /\ g.sc[j].acc = IF j = k THEN None ELSE m.sc[j].acc
  <2> TAKE j \in Conn
  <2>1. CASE j = k
    BY <1>6, <2>1
  <2>2. CASE j # k
    BY <1>2, <1>6, <2>2 DEF SameConn, State
  <2> QED BY <2>1, <2>2
<1>8. QueuesOf(g) = p
  <2>1. QueuesOf(g) = QueuesOf(m)
    BY <1>7, QueuesSame DEF SameConn
  <2> QED BY <1>4, <2>1
<1>9. /\ Core(g, s, p) /\ Attending(g, p, c)
      /\ \A d \in Client : d # c /\ Attending(m, p, d) => Attending(g, p, d)
  <2>1. m.cc[c].conn = k /\ Nothing(m.cc[c])
    BY <1>2
  <2>2. \A t \in Req : ~On(p, k, t)
    OBVIOUS
  <2> HIDE DEF p
  <2> QED BY ONLY <1>1, <1>3, <1>5, <2>1, <2>2, s[k] = Clean, c \in Client, DetachKeeps
<1>10. Posted(g)
  <2>1. \A j \in Conn : /\ g.sc[j].link = e.sc[j].link /\ g.sc[j].good = e.sc[j].good
                        /\ g.sc[j].send = e.sc[j].send /\ g.sc[j].sent = e.sc[j].sent
                        /\ g.sc[j].post = e.sc[j].post
                        /\ g.sc[j].acc = IF j = k THEN None ELSE e.sc[j].acc
    BY <1>2, <1>7 DEF SameConn
  <2> QED BY <2>1 DEF Posted, Open
<1>11. \A d \in Client : Attending(g, p, d)
  BY <1>5, <1>9
<1>12. Fit(g, s)
  BY <1>8, <1>9, <1>10, <1>11 DEF Fit
<1>13. \E u : InLists(g, u, w)
  <2>1. e.sc[k].post = {}
    BY <1>1, QuietIs
  <2>2. e.sc[k].acc = c /\ c # None
    BY <1>1, Constants DEF Attached
  <2>3. ~Contains(v, k)
    BY <1>1, <2>2 DEF InLists
  <2>4. \A j \in Conn : /\ g.sc[j].next = m.sc[j].next /\ g.sc[j].post = m.sc[j].post
                        /\ g.sc[j].link = m.sc[j].link
                        /\ g.sc[j].acc = IF j = k THEN None ELSE m.sc[j].acc
    BY <1>7 DEF SameConn
  <2>5. g.idle = m.idle /\ g.postS = m.postS
    BY <1>6
  <2> QED BY ONLY <1>1, <1>20, InLists(e, v, w), k \in Private, e.sc[k].link # "none",
                  <2>1, <2>3, <2>4, <2>5, PutKeeps
<1> QED BY <1>12, <1>13

\* The first request of a connection is taken, and its client recounted.
LEMMA FrontedIs ==
    ASSUME NEW h, State(h), NEW k \in Conn, h.sc[k].sent # <<>>, NEW c \in Client,
           NEW y \in AcceptConn, NEW g, g = [h EXCEPT !.cc[c] = y] \/ (g = h /\ y = h.cc[c]),
           NEW f, f = [g EXCEPT !.sc[k].sent = Tail(@)]
    PROVE  Fronted(h, f, k, c, y)
<1>1. /\ State(g) /\ g.sc = h.sc /\ g.idle = h.idle /\ g.req = h.req /\ g.postS = h.postS
      /\ \A d \in Client : g.cc[d] = IF d = c THEN y ELSE h.cc[d]
  <2>1. CASE g = [h EXCEPT !.cc[c] = y]
    <3>1. OnlyClient(h, [h EXCEPT !.cc[c] = y], c, y)
      BY ClientSet
    <3> QED BY <2>1, <3>1 DEF OnlyClient
  <2>2. CASE g = h /\ y = h.cc[c]
    BY <2>2
  <2> QED BY <2>1, <2>2
<1> DEFINE x == h.sc[k]
           z == [x EXCEPT !.sent = Tail(@)]
<1>2. /\ z \in ConnectConn /\ z.sent = Tail(x.sent)
      /\ z.link = x.link /\ z.good = x.good /\ z.send = x.send /\ z.post = x.post
      /\ z.acc = x.acc /\ z.next = x.next
  <2>1. x \in ConnectConn
    BY DEF State
  <2>2. Tail(x.sent) \in Seq(Req)
    BY <2>1 DEF ConnectConn
  <2> HIDE DEF x
  <2> QED BY <2>1, <2>2 DEF ConnectConn
<1>3. /\ DOMAIN f = Parts /\ f.sc = [g.sc EXCEPT ![k] = z]
      /\ f.cc = g.cc /\ f.req = g.req /\ f.idle = g.idle /\ f.postS = g.postS /\ f.postA = g.postA
  BY <1>1 DEF State, Parts
<1> HIDE DEF x, z
<1>7. g.sc \in [Conn -> ConnectConn]
  BY <1>1 DEF State
<1>4. State(f)
  <2>1. f.sc \in [Conn -> ConnectConn]
    BY ONLY <1>2, <1>3, <1>7
  <2>2. /\ f.cc \in [Client -> AcceptConn] /\ f.idle \in List /\ f.postS \in List
        /\ f.req \in [Req -> Request] /\ f.postA \in Seq(Client)
    BY ONLY <1>1, <1>3 DEF State
  <2> QED BY ONLY <1>3, <2>1, <2>2 DEF State
<1>5. \A j \in Conn : f.sc[j] = IF j = k THEN z ELSE h.sc[j]
  BY ONLY <1>1, <1>3, <1>7
<1>6. \A j \in Conn : /\ f.sc[j].link = h.sc[j].link /\ f.sc[j].good = h.sc[j].good
                      /\ f.sc[j].send = h.sc[j].send /\ f.sc[j].post = h.sc[j].post
                      /\ f.sc[j].acc = h.sc[j].acc /\ f.sc[j].next = h.sc[j].next
                      /\ f.sc[j].sent = IF j = k THEN Tail(h.sc[j].sent) ELSE h.sc[j].sent
  <2> TAKE j \in Conn
  <2>1. CASE j = k
    BY ONLY <1>2, <1>5, <2>1 DEF x
  <2>2. CASE j # k
    <3>1. f.sc[j] = h.sc[j]
      BY ONLY <1>5, <2>2
    <3> QED BY ONLY <2>2, <3>1
  <2> QED BY <2>1, <2>2
<1> QED BY <1>1, <1>3, <1>4, <1>6 DEF Fronted

\* The handler is as good after the answer was handled.
LEMMA AnswerFits ==
    ASSUME Orderly, NEW h, NEW s, Fit(h, s), Delivered(h), NEW v, NEW w, InLists(h, v, w),
           NEW k \in Conn, NEW r, NEW a, Answering(h, s, k, r, a),
           NEW f, Fronted(h, f, k, r[1], Recount(h, k, r, a)),
           NEW u, u = [s EXCEPT ![k] = a[2]], NEW g, g = HandleResponse(f, k, r, Res(a))
    PROVE  Fit(g, u) /\ \E l : InLists(g, l, w)
<1>1. /\ State(h) /\ Posted(h) /\ Core(h, s, QueuesOf(h))
      /\ \A d \in Client : Attending(h, QueuesOf(h), d)
  BY DEF Fit, Core
<1>2. IsHead(h, k, r) /\ h.sc[k].good /\ Open(h.sc[k]) /\ Reply(s[k], h.req[r].cmd, a)
  BY DEF Answering, IsHead
<1>3. r \in Req /\ r[1] \in Client /\ s[k] \in Sessions
  BY AnsweringIs
<1>4. Res(a) \in Response
  <2>1. a[1] \in {"ok", "data", "queued", "err", "sub", "unsub"}
    BY <1>2, <1>3, ReplySession
  <2> QED BY <2>1 DEF Res, Response
<1>5. /\ State(f) /\ f.idle = h.idle /\ f.postS = h.postS
      /\ \A j \in Conn : /\ f.sc[j].link = h.sc[j].link /\ f.sc[j].good = h.sc[j].good
                         /\ f.sc[j].send = h.sc[j].send /\ f.sc[j].post = h.sc[j].post
                         /\ f.sc[j].acc = h.sc[j].acc /\ f.sc[j].next = h.sc[j].next
                         /\ f.sc[j].sent = IF j = k THEN Tail(h.sc[j].sent) ELSE h.sc[j].sent
  BY DEF Fronted
<1>6. Posted(f)
  <2>1. \A j \in Conn : ~Open(h.sc[j]) => j # k
    BY <1>2
  <2> QED BY <1>1, <1>5, <2>1 DEF Posted, Open
<1>7. InLists(f, v, w)
  <2>1. \A j \in Conn : /\ f.sc[j].next = h.sc[j].next /\ f.sc[j].post = h.sc[j].post
                        /\ Contains(v, j) => f.sc[j].acc = None /\ f.sc[j].link # "none"
    BY <1>5 DEF InLists
  <2> QED BY <1>5, <2>1, ListsSame
<1>8. CASE ~Heeded(f, r)
  <2>1. g = f
    BY <1>3, <1>4, <1>5, <1>8, ResponseIs
  <2>2. Unheard(h, f, s, u, QueuesOf(h), QueuesOf(f), k, r)
    BY <1>8, IgnoredUnheard
  <2>3. /\ Core(f, u, QueuesOf(f))
        /\ \A d \in Client : Attending(h, QueuesOf(h), d) => Attending(f, QueuesOf(f), d)
    BY ONLY <1>1, <1>3, <2>2, k \in Conn, UnheardKeeps
  <2>4. Fit(f, u)
    BY <1>1, <1>6, <2>3 DEF Fit
  <2> QED BY <1>7, <2>1, <2>4
<1>9. CASE Heeded(f, r)
  <2>1. PICK e : /\ Answered(f, e, r, Res(a), FALSE)
                 /\ g = PutBack(e, r[1], k)
    <3>1. PICK e : Answered(f, e, r, Res(a), k = None) /\ g = PutBack(e, r[1], k)
      BY <1>3, <1>4, <1>5, <1>9, ResponseIs
    <3>2. (k = None) = FALSE
      BY Constants
    <3>3. Answered(f, e, r, Res(a), FALSE)
      BY ONLY <3>1, <3>2, Zenon
    <3> QED BY <3>1, <3>3
  <2> DEFINE p == QueuesOf(e)
  <2>2. /\ Core(e, u, p)
        /\ \A d \in Client : d # r[1] \/ k \notin Private \/ Holds(e.cc[d])
                             => Attending(e, p, d)
        /\ k \in Private /\ ~Holds(e.cc[r[1]]) =>
             /\ Nothing(e.cc[r[1]]) /\ u[k] = Clean /\ e.cc[r[1]].conn = k
             /\ \A t \in Req : ~On(p, k, t)
    <3>1. Hearing(h, s, k, r, a, f, e, u)
      BY <1>9, <2>1 DEF Hearing
    <3> QED BY ONLY Orderly, Fit(h, s), Delivered(h), <3>1, HeardKeeps
  <2>3. State(e) /\ e.sc = f.sc /\ e.idle = f.idle /\ e.postS = f.postS
    BY <2>1 DEF Answered
  <2>4. Posted(e)
    BY <1>6, <2>3 DEF Posted
  <2>5. InLists(e, v, w)
    <3>1. \A j \in Conn : Contains(v, j) => e.sc[j].acc = None /\ e.sc[j].link # "none"
      BY <1>7, <2>3 DEF InLists
    <3> QED BY <1>7, <2>3, <3>1, ListsSame
  <2>6. CASE k \in Private /\ ~Holds(e.cc[r[1]])
    <3>1. g = Detach(PutPrivate(e, k), r[1], k)
      BY <2>1, <2>6 DEF PutBack
    <3>2. e.sc[k].good /\ e.sc[k].link # "none"
      BY <1>2, <1>5, <2>3 DEF Open
    <3>3. /\ \A d \in Client : d # r[1] => Attending(e, p, d)
          /\ Nothing(e.cc[r[1]]) /\ u[k] = Clean /\ e.cc[r[1]].conn = k
          /\ \A t \in Req : ~On(p, k, t)
      BY <2>2, <2>6
    <3> QED BY ONLY <1>3, <2>2, <2>4, <2>5, <2>6, <3>1, <3>2, <3>3, PutBackFits
  <2>7. CASE ~(k \in Private /\ ~Holds(e.cc[r[1]]))
    <3>1. g = e
      BY <2>1, <2>7 DEF PutBack
    <3>2. \A d \in Client : Attending(e, p, d)
      BY <2>2, <2>7
    <3>3. Fit(e, u)
      BY <2>2, <2>4, <3>2 DEF Fit
    <3> QED BY <2>5, <3>1, <3>3
  <2> QED BY <2>6, <2>7
<1> QED BY <1>8, <1>9

\* So it is after the action.
LEMMA ReadReplySuits ==
    ASSUME Orderly, Held, Suits, NEW k \in Conn, ReadReply(k)
    PROVE  Suits'
<1> DEFINE h == Handler
           s == session
           r == Head(sc[k].sent)
           cmd == req[r].cmd
           c == sc[k].acc
           x == cc[c]
<1>1. /\ h.cc = cc /\ h.sc = sc /\ h.req = req
  BY Fields
<1>2. PICK v, w : InLists(h, v, w)
  BY DEF Suits
<1>3. Fit(h, s) /\ Delivered(h) /\ State(h)
  BY DEF Suits, Held, HandlerInv
<1>4. Open(sc[k]) /\ sc[k].good /\ sc[k].sent # <<>>
  BY DEF ReadReply
<1>5. PICK a \in {Served(session[k], cmd)} \cup {<<"err", session[k]>> : i \in Refusable \cap {cmd}} :
        LET res == IF a[1] \in {"sub", "unsub"} THEN "data" ELSE a[1]
            g == IF c # None /\ InSub(x)
                 THEN [Handler EXCEPT !.cc[c] = Counted(@, cmd, a[1], a[2].subs)]
                 ELSE Handler
        IN /\ session' = [session EXCEPT ![k] = a[2]]
           /\ Becomes(HandleResponse([g EXCEPT !.sc[k].sent = Tail(@)], k, r, res))
  BY DEF ReadReply
<1> DEFINE g == IF c # None /\ InSub(x)
                THEN [Handler EXCEPT !.cc[c] = Counted(@, cmd, a[1], a[2].subs)]
                ELSE Handler
           f == [g EXCEPT !.sc[k].sent = Tail(@)]
           u == [session EXCEPT ![k] = a[2]]
<1>6. session' = u /\ Becomes(HandleResponse(f, k, r, Res(a)))
  BY <1>5 DEF Res
<1>7. Reply(session[k], cmd, a)
  BY <1>5 DEF Reply
<1>8. Answering(h, s, k, r, a)
  BY <1>1, <1>4, <1>7 DEF Answering, IsHead
<1>9. /\ r \in Req /\ r[1] \in Client /\ h.cc[r[1]] \in AcceptConn /\ a[2] \in Sessions
  BY <1>3, <1>8, AnsweringIs
<1>10. /\ k \in Private => c = r[1]
       /\ k = Shared => c = None
  BY <1>1, <1>3, <1>8, FrontIs DEF Answering, AtFront
<1>11. Fronted(h, f, k, r[1], Recount(h, k, r, a))
  <2> DEFINE y == Recount(h, k, r, a)
  <2>1. a[2].subs \in Nat
    BY <1>9 DEF Sessions
  <2>2. y \in AcceptConn
    <3>1. CASE k \in Private /\ InSub(h.cc[r[1]])
      <4>1. y = Counted(h.cc[r[1]], h.req[r].cmd, a[1], a[2].subs)
        BY <3>1 DEF Recount
      <4> QED BY <1>9, <2>1, <4>1, CountedIs DEF Recounted, SameClient
    <3>2. CASE ~(k \in Private /\ InSub(h.cc[r[1]]))
      BY <1>9, <3>2 DEF Recount
    <3> QED BY <3>1, <3>2
  <2>3. g = [h EXCEPT !.cc[r[1]] = y] \/ (g = h /\ y = h.cc[r[1]])
    <3>1. CASE k \in Private /\ InSub(h.cc[r[1]])
      <4>1. c = r[1] /\ c # None /\ x = h.cc[r[1]]
        BY <1>1, <1>9, <1>10, <3>1, Constants
      <4>2. g = [h EXCEPT !.cc[c] = Counted(@, cmd, a[1], a[2].subs)]
        BY <3>1, <4>1
      <4>3. g = [h EXCEPT !.cc[c] = Counted(h.cc[c], cmd, a[1], a[2].subs)]
        BY <4>2 DEF Handler
      <4>4. y = Counted(h.cc[r[1]], h.req[r].cmd, a[1], a[2].subs)
        BY <3>1 DEF Recount
      <4> QED BY <1>1, <4>1, <4>3, <4>4
    <3>2. CASE ~(k \in Private /\ InSub(h.cc[r[1]]))
      <4>1. y = h.cc[r[1]]
        BY <3>2 DEF Recount
      <4>2. c = None \/ ~InSub(x)
        BY <1>1, <1>10, <3>2, Constants
      <4> QED BY <4>1, <4>2
    <3> QED BY <3>1, <3>2
  <2>4. h.sc[k].sent # <<>> /\ f = [g EXCEPT !.sc[k].sent = Tail(@)]
    BY <1>1, <1>4
  <2> HIDE DEF h, g, f, y, r
  <2> QED BY ONLY <1>3, <1>9, <2>2, <2>3, <2>4, k \in Conn, FrontedIs DEF y
<1> HIDE DEF f, g, r, u, h
<1>12. /\ Fit(HandleResponse(f, k, r, Res(a)), u)
       /\ \E l : InLists(HandleResponse(f, k, r, Res(a)), l, w)
  BY ONLY Orderly, <1>2, <1>3, <1>8, <1>11, k \in Conn, AnswerFits DEF u
<1> QED BY <1>6, <1>12, BecomesSuits

-----------------------------------------------------------------------------
(* A connection is written.  While write() goes through send the requests  *)
(* on the connection are those in sent, and those of send as it was that   *)
(* have not been dealt with.                                               *)

\* What is left of the requests of connection k when n were dealt with.
ToWrite(h, k, n) == SubSeq(h.sc[k].send, n + 1, Len(h.sc[k].send))

\* The requests on each connection then.
WriteQueues(h, k, n, g) ==
    [j \in Conn |-> IF j = k THEN g.sc[k].sent \o ToWrite(h, k, n) ELSE QueuesOf(h)[j]]

\* g is what h has become then.
Writing(h, s, k, n, g) ==
    /\ Core(g, s, WriteQueues(h, k, n, g))
    /\ \A d \in Client : Attending(g, WriteQueues(h, k, n, g), d)
    /\ g.idle = h.idle /\ g.postS = h.postS
    /\ \A j \in Conn : /\ g.sc[j].link = h.sc[j].link /\ g.sc[j].good = h.sc[j].good
                       /\ g.sc[j].post = h.sc[j].post /\ g.sc[j].acc = h.sc[j].acc
                       /\ g.sc[j].next = h.sc[j].next
                       /\ j # k => g.sc[j].send = h.sc[j].send /\ g.sc[j].sent = h.sc[j].sent

\* The next is the first of those that are left.
LEMMA ToWriteIs ==
    ASSUME NEW h, State(h), NEW k \in Conn, NEW n \in 1..Len(h.sc[k].send),
           NEW r, r = h.sc[k].send[n]
    PROVE  /\ r \in Req
           /\ ToWrite(h, k, n - 1) \in Seq(Req) /\ ToWrite(h, k, n - 1) # <<>>
           /\ Head(ToWrite(h, k, n - 1)) = r /\ Tail(ToWrite(h, k, n - 1)) = ToWrite(h, k, n)
           /\ ToWrite(h, k, n) \in Seq(Req)
<1> DEFINE q == h.sc[k].send
           z == ToWrite(h, k, n - 1)
<1>1. q \in Seq(Req) /\ Len(q) \in Nat /\ n \in 1..Len(q)
  BY DEF State, ConnectConn
<1>2. z = SubSeq(q, n, Len(q))
  BY <1>1 DEF ToWrite
<1>3. ToWrite(h, k, n) = SubSeq(q, n + 1, Len(q))
  BY DEF ToWrite
<1> HIDE DEF z, q
<1>4. z \in Seq(Req) /\ Len(z) = Len(q) - n + 1 /\ \A i \in 1..Len(z) : z[i] = q[i + n - 1]
  BY <1>1, <1>2
<1>5. z # <<>> /\ q[n] \in Req
  BY <1>1, <1>4
<1>6. Len(q) \in n..Len(q)
  BY <1>1
<1>7. Head(z) = q[n] /\ Tail(z) = SubSeq(q, n + 1, Len(q))
  BY <1>1, <1>2, <1>6, HeadTailOfSubSeq
<1>8. Tail(z) \in Seq(Req)
  BY <1>4, <1>5
<1> QED BY <1>3, <1>4, <1>5, <1>7, <1>8 DEF z, q

\* A first element moves from the second part to the first.
LEMMA MoveHead ==
    ASSUME NEW a \in Seq(Req), NEW b \in Seq(Req), b # <<>>
    PROVE  Append(a, Head(b)) \o Tail(b) = a \o b
<1> DEFINE c == Append(a, Head(b))
           d == Tail(b)
<1>1. c \in Seq(Req) /\ Len(c) = Len(a) + 1 /\ d \in Seq(Req) /\ Len(d) = Len(b) - 1
      /\ Len(a) \in Nat /\ Len(b) \in Nat /\ Len(b) >= 1
  OBVIOUS
<1>2. /\ \A i \in 1..Len(a) : c[i] = a[i]
      /\ c[Len(a) + 1] = b[1] /\ \A i \in 1..Len(d) : d[i] = b[i + 1]
  OBVIOUS
<1> HIDE DEF c, d
<1>3. /\ c \o d \in Seq(Req) /\ Len(c \o d) = Len(c) + Len(d)
      /\ \A i \in 1..Len(c) + Len(d) : (c \o d)[i] = IF i <= Len(c) THEN c[i] ELSE d[i - Len(c)]
  BY ONLY <1>1, ConcatProperties
<1>4. /\ a \o b \in Seq(Req) /\ Len(a \o b) = Len(a) + Len(b)
      /\ \A i \in 1..Len(a) + Len(b) : (a \o b)[i] = IF i <= Len(a) THEN a[i] ELSE b[i - Len(a)]
  BY ConcatProperties
<1>5. ASSUME NEW i \in 1..Len(a) + Len(b)
      PROVE  (c \o d)[i] = (a \o b)[i]
  <2>0. i \in Int /\ i >= 1 /\ i <= Len(a) + Len(b) /\ Len(c) + Len(d) = Len(a) + Len(b)
    BY <1>1
  <2>1. CASE i <= Len(a)
    BY ONLY <1>1, <1>2, <1>3, <1>4, <2>0, <2>1
  <2>2. CASE i = Len(a) + 1
    BY ONLY <1>1, <1>2, <1>3, <1>4, <2>0, <2>2
  <2>3. CASE i > Len(a) + 1
    <3>1. (c \o d)[i] = d[i - Len(c)] /\ i - Len(c) \in 1..Len(d)
      BY ONLY <1>1, <1>3, <2>0, <2>3
    <3>2. d[i - Len(c)] = b[i - Len(c) + 1]
      BY ONLY <1>2, <3>1
    <3>3. i - Len(c) + 1 = i - Len(a)
      BY ONLY <1>1, <2>0
    <3> QED BY ONLY <1>1, <1>4, <2>0, <2>3, <3>1, <3>2, <3>3
  <2> QED BY ONLY <1>1, <2>0, <2>1, <2>2, <2>3
<1>6. Len(c \o d) = Len(a \o b)
  BY ONLY <1>1, <1>3, <1>4
<1>7. c \o d = a \o b
  BY ONLY <1>3, <1>4, <1>5, <1>6, SeqEqual
<1> QED BY <1>7 DEF c, d

\* A request that is sent leaves send for sent: the same are on the connection.
LEMMA SentMoves ==
    ASSUME NEW h, State(h), NEW s, NEW k \in Conn, NEW n \in 1..Len(h.sc[k].send),
           NEW g, Writing(h, s, k, n - 1, g), NEW e,
           e = [g EXCEPT !.sc[k].sent = Append(@, h.sc[k].send[n])]
    PROVE  Writing(h, s, k, n, e) /\ e.sc[k].send = g.sc[k].send
<1> DEFINE r == h.sc[k].send[n]
           q == WriteQueues(h, k, n - 1, g)
           y == [g.sc[k] EXCEPT !.sent = Append(@, r)]
<1>1. State(g) /\ Known(g)
  BY DEF Writing, Core
<1>2. /\ r \in Req /\ Head(ToWrite(h, k, n - 1)) = r /\ Tail(ToWrite(h, k, n - 1)) = ToWrite(h, k, n)
      /\ ToWrite(h, k, n - 1) \in Seq(Req) /\ ToWrite(h, k, n - 1) # <<>>
  BY ToWriteIs
<1>3. /\ DOMAIN e = Parts /\ e.cc = g.cc /\ e.req = g.req /\ e.idle = g.idle
      /\ e.postS = g.postS /\ e.postA = g.postA /\ e.sc = [g.sc EXCEPT ![k] = y]
  BY <1>1 DEF State, Parts
<1>4. g.sc[k] \in ConnectConn
  BY <1>1 DEF State
<1>5. /\ y \in ConnectConn /\ y.link = g.sc[k].link /\ y.good = g.sc[k].good
      /\ y.post = g.sc[k].post /\ y.acc = g.sc[k].acc /\ y.next = g.sc[k].next
      /\ y.send = g.sc[k].send /\ y.sent = Append(g.sc[k].sent, r)
  <2>1. Append(g.sc[k].sent, r) \in Seq(Req)
    BY <1>2, <1>4 DEF ConnectConn
  <2> QED BY ONLY <1>4, <2>1 DEF ConnectConn
<1> HIDE DEF y, r
<1>6. \A j \in Conn : e.sc[j] = IF j = k THEN y ELSE g.sc[j]
  BY ONLY <1>1, <1>3 DEF State
<1>7. /\ \A j \in Conn : /\ e.sc[j].link = g.sc[j].link /\ e.sc[j].good = g.sc[j].good
                         /\ e.sc[j].post = g.sc[j].post /\ e.sc[j].acc = g.sc[j].acc
                         /\ e.sc[j].next = g.sc[j].next /\ e.sc[j].send = g.sc[j].send
                         /\ j # k => e.sc[j].sent = g.sc[j].sent
      /\ e.sc[k].sent = Append(g.sc[k].sent, r)
  BY <1>5, <1>6
<1>8. State(e)
  <2>1. e.sc \in [Conn -> ConnectConn]
    BY ONLY <1>1, <1>3, <1>5 DEF State
  <2> QED BY ONLY <1>1, <1>3, <2>1 DEF State
<1>9. WriteQueues(h, k, n, e) = q
  <2>1. g.sc[k].sent \in Seq(Req)
    BY <1>4 DEF ConnectConn
  <2> DEFINE a == g.sc[k].sent
             b == ToWrite(h, k, n - 1)
  <2> HIDE DEF a, b
  <2>2. Append(a, Head(b)) \o Tail(b) = a \o b
    BY ONLY <1>2, <2>1, MoveHead DEF a, b
  <2>3. e.sc[k].sent \o ToWrite(h, k, n) = g.sc[k].sent \o ToWrite(h, k, n - 1)
    BY ONLY <1>2, <1>7, <2>2 DEF a, b
  <2> QED BY ONLY <2>3 DEF WriteQueues, q
<1> HIDE DEF q
<1>10. Like(g, e, q)
  BY ONLY <1>1, <1>3, <1>7, <1>8, LikeSame
<1>11. Core(g, s, q) /\ \A d \in Client : Attending(g, q, d)
  BY DEF Writing, q
<1>12. Core(e, s, q) /\ \A d \in Client : Attending(e, q, d)
  BY ONLY <1>10, <1>11, LikeKeeps
<1>13. /\ g.idle = h.idle /\ g.postS = h.postS
       /\ \A j \in Conn : /\ g.sc[j].link = h.sc[j].link /\ g.sc[j].good = h.sc[j].good
                          /\ g.sc[j].post = h.sc[j].post /\ g.sc[j].acc = h.sc[j].acc
                          /\ g.sc[j].next = h.sc[j].next
                          /\ j # k => g.sc[j].send = h.sc[j].send /\ g.sc[j].sent = h.sc[j].sent
  BY DEF Writing
<1>14. Writing(h, s, k, n, e)
  BY ONLY <1>3, <1>7, <1>9, <1>12, <1>13 DEF Writing
<1> QED BY <1>7, <1>14

\* The response to a request without a body changes nothing else of its client.
LEMMA EmptyResponse ==
    ASSUME NEW x \in AcceptConn, NEW cmd \in Empty, NEW res
    PROVE  SameAs(x, Responded(x, cmd, res, FALSE))
<1> DEFINE y == Unblocked(x, cmd)
<1>1. cmd \notin Blocking /\ cmd \notin {"watch", "multi", "unwatch", "exec", "discard", "subscribe"}
  BY DEF Empty, Blocking
<1>2. \A b \in BOOLEAN :
         cmd \notin {"watch", "multi", "unwatch", "exec", "discard", "subscribe"} =>
           Responded(x, cmd, res, b) = y
  BY RespondedCases
<1>3. Apart(x, y) /\ y.block = (x.block /\ cmd \notin Blocking) /\ SameCounters(x, y)
  BY ChangesAre
<1>4. x.block \in BOOLEAN
  BY DEF AcceptConn
<1> HIDE DEF y
<1>5. y.block = x.block
  BY ONLY <1>1, <1>3, <1>4
<1>6. Responded(x, cmd, res, FALSE) = y
  BY ONLY <1>1, <1>2
<1> QED BY ONLY <1>3, <1>5, <1>6 DEF SameAs

\* One that has no body is left out.
LEMMA EmptyLeft ==
    ASSUME NEW h, State(h), NEW s, NEW k \in Conn, h.sc[k].good,
           NEW n \in 1..Len(h.sc[k].send), NEW g, Writing(h, s, k, n - 1, g),
           NEW r, r = h.sc[k].send[n], ~HasBody(g, r),
           NEW e, e = HandleResponse(g, k, r, "null")
    PROVE  Writing(h, s, k, n, e) /\ e.sc[k].send = g.sc[k].send
<1> DEFINE q == WriteQueues(h, k, n - 1, g)
           p == WriteQueues(h, k, n, g)
           a == g.sc[k].sent
           b == ToWrite(h, k, n - 1)
<1>1. State(g) /\ Known(g) /\ q \in Queues /\ Once(q) /\ Pending(g, q) /\ Attached(g)
  BY DEF Writing, Core
<1>2. /\ r \in Req /\ Head(b) = r /\ Tail(b) = ToWrite(h, k, n)
      /\ b \in Seq(Req) /\ b # <<>>
  BY ToWriteIs
<1>3. a \in Seq(Req)
  BY <1>1 DEF State, ConnectConn
<1>4. q[k] = a \o b /\ p[k] = a \o Tail(b) /\ \A j \in Conn : j # k => p[j] = q[j]
  BY <1>2 DEF WriteQueues
<1>5. p \in Queues
  <2>1. a \o Tail(b) \in Seq(Req)
    BY <1>2, <1>3
  <2>2. p = [j \in Conn |-> IF j = k THEN a \o Tail(b) ELSE q[j]]
    BY <1>2 DEF WriteQueues
  <2> HIDE DEF p, q, a, b
  <2> QED BY ONLY <1>1, <2>1, <2>2 DEF Queues
<1> HIDE DEF p, q, a, b
<1>6. Less(q[k], p[k], r) /\ On(q, k, r)
  <2>1. \A i, j \in 1..Len(a \o b) : (a \o b)[i] = (a \o b)[j] => i = j
    BY ONLY <1>1, <1>4, k \in Conn DEF Once
  <2> QED BY ONLY <1>2, <1>3, <1>4, <2>1, LessMiddle DEF On
<1>7. g.req[r].cmd \in Empty
  BY DEF HasBody
<1>8. s \in [Conn -> Sessions]
  BY DEF Writing, Core
<1>9. Core(g, s, q) /\ \A d \in Client : Attending(g, q, d)
  BY DEF Writing, q
<1>10. \A d \in Client : Apart(g.cc[d], g.cc[d]) /\ SameAs(g.cc[d], g.cc[d])
  BY DEF SameAs, Apart, SameCounters, HasCounters
<1>11. r[1] \in Client
  BY <1>2, Constants
<1>12. /\ g.idle = h.idle /\ g.postS = h.postS
       /\ \A j \in Conn : /\ g.sc[j].link = h.sc[j].link /\ g.sc[j].good = h.sc[j].good
                          /\ g.sc[j].post = h.sc[j].post /\ g.sc[j].acc = h.sc[j].acc
                          /\ g.sc[j].next = h.sc[j].next
                          /\ j # k => g.sc[j].send = h.sc[j].send /\ g.sc[j].sent = h.sc[j].sent
  BY DEF Writing
<1>13. ASSUME NEW f, Unheard(g, f, s, s, q, p, k, r), f.sc = g.sc, f.idle = g.idle, f.postS = g.postS
       PROVE  Writing(h, s, k, n, f) /\ f.sc[k].send = g.sc[k].send
  <2>1. Core(f, s, p) /\ \A d \in Client : Attending(f, p, d)
    BY ONLY <1>2, <1>9, <1>13, k \in Conn, UnheardKeeps
  <2>2. WriteQueues(h, k, n, f) = p
    BY <1>13 DEF WriteQueues, p
  <2> QED BY ONLY <1>12, <1>13, <2>1, <2>2 DEF Writing
<1>14. CASE ~Heeded(g, r)
  <2>1. e = g
    BY ONLY <1>1, <1>2, <1>14, k \in Conn, e = HandleResponse(g, k, r, "null"), ResponseIs DEF Response
  <2>2. Unheard(g, g, s, s, q, p, k, r)
    BY ONLY <1>1, <1>4, <1>5, <1>6, <1>7, <1>8, <1>10 DEF Unheard
  <2> QED BY <1>13, <2>1, <2>2
<1>15. CASE Heeded(g, r)
  <2>1. PICK f : Answered(g, f, r, "null", k = None) /\ e = PutBack(f, r[1], k)
    BY ONLY <1>1, <1>2, <1>15, k \in Conn, e = HandleResponse(g, k, r, "null"), ResponseIs DEF Response
  <2>2. (k = None) = FALSE
    BY Constants
  <2>3. Answered(g, f, r, "null", FALSE)
    BY ONLY <2>1, <2>2
  <2>4. /\ State(f) /\ f.sc = g.sc /\ f.idle = g.idle /\ f.postS = g.postS
        /\ f.req = [g.req EXCEPT ![r].res = "null"]
        /\ \A d \in Client : d # r[1] => SameAs(g.cc[d], f.cc[d])
        /\ SameAs(Responded(g.cc[r[1]], g.req[r].cmd, "null", FALSE), f.cc[r[1]])
    BY <2>3 DEF Answered
  <2>5. SameAs(g.cc[r[1]], f.cc[r[1]])
    <3>1. g.cc[r[1]] \in AcceptConn
      BY <1>1, <1>11 DEF State
    <3>2. SameAs(g.cc[r[1]], Responded(g.cc[r[1]], g.req[r].cmd, "null", FALSE))
      BY ONLY <1>7, <3>1, EmptyResponse
    <3> QED BY ONLY <2>4, <3>2, SameAsTrans
  <2>6. \A d \in Client : Apart(g.cc[d], f.cc[d]) /\ SameAs(g.cc[d], f.cc[d])
    BY ONLY <2>4, <2>5 DEF SameAs
  <2>7. \A t \in Req : f.req[t].cmd = g.req[t].cmd /\ (t # r => f.req[t] = g.req[t])
                       /\ f.req[t].delivered = g.req[t].delivered
    BY ONLY <1>1, <1>2, <2>4 DEF State, Request
  <2>8. Known(f)
    BY ONLY <1>1, <1>7, <2>7 DEF Known
  <2>9. Unheard(g, f, s, s, q, p, k, r)
    BY ONLY <1>4, <1>5, <1>6, <1>7, <1>8, <2>4, <2>6, <2>7, <2>8 DEF Unheard
  <2>10. ~(k \in Private /\ ~Holds(f.cc[r[1]]))
    <3> SUFFICES ASSUME k \in Private, ~Holds(f.cc[r[1]]) PROVE FALSE
      OBVIOUS
    <3>1. ~Holds(g.cc[r[1]])
      BY ONLY <1>11, <2>6, SameHolds, ~Holds(f.cc[r[1]]) DEF SameAs
    <3>2. g.sc[k].acc = r[1] /\ g.cc[r[1]].conn = k
      <4>1. k \in Private => IF g.sc[k].good THEN g.sc[k].acc = r[1] ELSE ~g.cc[r[1]].open
        BY ONLY <1>1, <1>2, <1>6, k \in Conn DEF Pending
      <4>2. g.sc[k].good /\ k \in Private
        BY <1>12
      <4>3. \A c \in Client, j \in Conn : g.cc[c].conn = j <=> g.sc[j].acc = c
        BY <1>1 DEF Attached
      <4> QED BY ONLY <4>1, <4>2, <4>3, <1>11, k \in Conn
    <3>3. Alive(g, r[1])
      <4>1. Contains(g.cc[r[1]].requests, r) /\ g.cc[r[1]].good
        BY <1>15 DEF Heeded
      <4>2. ~g.cc[r[1]].open => g.cc[r[1]].requests = <<>>
        BY ONLY <1>1, <1>11 DEF Attached
      <4>3. g.cc[r[1]].requests # <<>>
        BY ONLY <4>1 DEF Contains
      <4> QED BY ONLY <4>1, <4>2, <4>3 DEF Alive
    <3>4. g.req[r].cmd \in Blocking
      BY <1>2, <1>6, <1>9, <1>11, <3>1, <3>2, <3>3, Constants DEF Attending
    <3> QED BY <1>7, <3>4 DEF Empty, Blocking
  <2>11. e = f
    BY <2>1, <2>10 DEF PutBack
  <2> QED BY <1>13, <2>4, <2>9, <2>11
<1> QED BY <1>14, <1>15

\* One step of write().
LEMMA WriteOne ==
    ASSUME NEW h, State(h), NEW s, NEW k \in Conn, h.sc[k].good,
           NEW n \in 1..Len(h.sc[k].send), NEW g, Writing(h, s, k, n - 1, g),
           NEW r, r = h.sc[k].send[n], NEW e, e = SentOrEmpty(g, k, r)
    PROVE  Writing(h, s, k, n, e) /\ e.sc[k].send = g.sc[k].send
<1>1. CASE HasBody(g, r)
  <2>1. e = [g EXCEPT !.sc[k].sent = Append(@, h.sc[k].send[n])]
    BY <1>1 DEF SentOrEmpty
  <2> QED BY <2>1, SentMoves
<1>2. CASE ~HasBody(g, r)
  <2>1. e = HandleResponse(g, k, r, "null")
    BY <1>2 DEF SentOrEmpty
  <2> QED BY <1>2, <2>1, EmptyLeft
<1> QED BY <1>1, <1>2

\* Writing with the parameters of a fold.
WritingSoFar(k, y, b, q, n, g) ==
    Writing(y[1], y[2], k, n, g) /\ g.sc[k].send = b.sc[k].send

\* It holds after all of them, by induction.
WritingAll == INSTANCE LeftFold WITH Op <- WriteStep, P <- WritingSoFar

\* Before the first step.
LEMMA WriteBegins ==
    ASSUME NEW h, NEW s, Fit(h, s), NEW k \in Conn, NEW m \in 0..Len(h.sc[k].send),
           NEW b, b = [h EXCEPT !.sc[k].send = SubSeq(h.sc[k].send, m + 1, Len(h.sc[k].send))]
    PROVE  Writing(h, s, k, 0, b) /\ b.sc[k].send = ToWrite(h, k, m)
<1> DEFINE q == h.sc[k].send
           z == SubSeq(q, m + 1, Len(q))
           y == [h.sc[k] EXCEPT !.send = z]
<1>1. State(h) /\ Known(h)
  BY DEF Fit, Core
<1>2. h.sc[k] \in ConnectConn /\ q \in Seq(Req)
  BY <1>1 DEF State, ConnectConn
<1>3. z \in Seq(Req) /\ z = ToWrite(h, k, m)
  BY <1>2, CutContain DEF ToWrite
<1>4. ToWrite(h, k, 0) = q
  BY <1>2 DEF ToWrite
<1>5. /\ DOMAIN b = Parts /\ b.cc = h.cc /\ b.req = h.req /\ b.idle = h.idle
      /\ b.postS = h.postS /\ b.postA = h.postA /\ b.sc = [h.sc EXCEPT ![k] = y]
  BY <1>1 DEF State, Parts
<1> HIDE DEF z
<1>6. /\ y \in ConnectConn /\ y.link = h.sc[k].link /\ y.good = h.sc[k].good
      /\ y.post = h.sc[k].post /\ y.acc = h.sc[k].acc /\ y.next = h.sc[k].next
      /\ y.sent = h.sc[k].sent /\ y.send = z
  BY ONLY <1>2, <1>3 DEF ConnectConn
<1> HIDE DEF y
<1>7. \A j \in Conn : b.sc[j] = IF j = k THEN y ELSE h.sc[j]
  BY ONLY <1>1, <1>5 DEF State
<1>8. /\ \A j \in Conn : /\ b.sc[j].link = h.sc[j].link /\ b.sc[j].good = h.sc[j].good
                         /\ b.sc[j].post = h.sc[j].post /\ b.sc[j].acc = h.sc[j].acc
                         /\ b.sc[j].next = h.sc[j].next /\ b.sc[j].sent = h.sc[j].sent
                         /\ j # k => b.sc[j].send = h.sc[j].send
      /\ b.sc[k].send = z
  BY <1>6, <1>7
<1>9. State(b)
  <2>1. b.sc \in [Conn -> ConnectConn]
    BY ONLY <1>1, <1>5, <1>6 DEF State
  <2> QED BY ONLY <1>1, <1>5, <2>1 DEF State
<1>10. WriteQueues(h, k, 0, b) = QueuesOf(h)
  <2>1. b.sc[k].sent \o ToWrite(h, k, 0) = QueuesOf(h)[k]
    BY ONLY <1>4, <1>8, k \in Conn DEF QueuesOf
  <2>2. \A j \in Conn : WriteQueues(h, k, 0, b)[j] = QueuesOf(h)[j]
    BY ONLY <2>1 DEF WriteQueues
  <2> QED BY ONLY <2>2 DEF WriteQueues, QueuesOf
<1>11. Like(h, b, QueuesOf(h))
  BY ONLY <1>1, <1>5, <1>8, <1>9, LikeSame
<1>12. Core(h, s, QueuesOf(h)) /\ \A d \in Client : Attending(h, QueuesOf(h), d)
  BY DEF Fit
<1>13. Core(b, s, QueuesOf(h)) /\ \A d \in Client : Attending(b, QueuesOf(h), d)
  BY ONLY <1>11, <1>12, LikeKeeps
<1>14. Writing(h, s, k, 0, b)
  BY ONLY <1>5, <1>8, <1>10, <1>13 DEF Writing
<1> QED BY <1>3, <1>8, <1>14

\* After the last.
LEMMA WriteEnds ==
    ASSUME NEW h, NEW s, Fit(h, s), NEW v, NEW w, InLists(h, v, w), NEW k \in Conn,
           h.sc[k].good, Open(h.sc[k]), h.sc[k].post = {},
           NEW m, NEW g, Writing(h, s, k, m, g), g.sc[k].send = ToWrite(h, k, m)
    PROVE  Fit(g, s) /\ InLists(g, v, w)
<1>1. /\ Core(g, s, WriteQueues(h, k, m, g))
      /\ \A d \in Client : Attending(g, WriteQueues(h, k, m, g), d)
      /\ g.idle = h.idle /\ g.postS = h.postS
      /\ \A j \in Conn : /\ g.sc[j].link = h.sc[j].link /\ g.sc[j].good = h.sc[j].good
                         /\ g.sc[j].post = h.sc[j].post /\ g.sc[j].acc = h.sc[j].acc
                         /\ g.sc[j].next = h.sc[j].next
                         /\ j # k => g.sc[j].send = h.sc[j].send /\ g.sc[j].sent = h.sc[j].sent
  BY DEF Writing
<1>2. WriteQueues(h, k, m, g) = QueuesOf(g)
  BY <1>1 DEF WriteQueues, QueuesOf
<1>3. Posted(g)
  <2>1. Posted(h)
    BY DEF Fit
  <2>2. \A j \in Conn : /\ g.sc[j].good = h.sc[j].good /\ g.sc[j].post = h.sc[j].post
                        /\ g.sc[j].link = h.sc[j].link /\ g.sc[j].acc = h.sc[j].acc
                        /\ \/ g.sc[j].send = h.sc[j].send /\ g.sc[j].sent = h.sc[j].sent
                           \/ h.sc[j].good /\ h.sc[j].post = {} /\ Open(h.sc[j])
    BY ONLY <1>1, h.sc[k].good, Open(h.sc[k]), h.sc[k].post = {}
  <2>3. ASSUME NEW j \in Conn
        PROVE  /\ g.sc[j].good =>
                    /\ g.sc[j].post \subseteq {"Write"}
                    /\ g.sc[j].post # {} => g.sc[j].send # <<>>
               /\ Open(g.sc[j]) /\ ~g.sc[j].good => j # Shared /\ "Error" \in g.sc[j].post
               /\ ~Open(g.sc[j]) => /\ g.sc[j].send = <<>> /\ g.sc[j].sent = <<>>
                                    /\ g.sc[j].post = {} /\ g.sc[j].acc = None
    <3>1. /\ h.sc[j].good =>
               /\ h.sc[j].post \subseteq {"Write"}
               /\ h.sc[j].post # {} => h.sc[j].send # <<>>
          /\ Open(h.sc[j]) /\ ~h.sc[j].good => j # Shared /\ "Error" \in h.sc[j].post
          /\ ~Open(h.sc[j]) => /\ h.sc[j].send = <<>> /\ h.sc[j].sent = <<>>
                               /\ h.sc[j].post = {} /\ h.sc[j].acc = None
      BY <2>1 DEF Posted
    <3> QED BY ONLY <2>2, <2>3, <3>1 DEF Open
  <2> QED BY ONLY <2>3 DEF Posted
<1>4. Fit(g, s)
  BY ONLY <1>1, <1>2, <1>3 DEF Fit
<1>5. \A j \in Conn : Contains(v, j) => g.sc[j].acc = None /\ g.sc[j].link # "none"
  BY <1>1 DEF InLists
<1>6. InLists(g, v, w)
  BY ONLY <1>1, <1>5, InLists(h, v, w), ListsSame
<1> QED BY <1>4, <1>6

\* A good connection is written.
LEMMA WriteFits ==
    ASSUME NEW h, NEW s, Fit(h, s), NEW v, NEW w, InLists(h, v, w), NEW k \in Conn,
           h.sc[k].good, Open(h.sc[k]), h.sc[k].post = {}
    PROVE  Fit(Write(h, k), s) /\ InLists(Write(h, k), v, w)
<1>1. State(h)
  BY DEF Fit, Core
<1>2. PICK m \in 0..Len(h.sc[k].send) : Write(h, k) = WriteFirst(h, k, m)
  BY <1>1, WriteIs
<1> DEFINE q == h.sc[k].send
           p == SubSeq(q, 1, m)
           b == [h EXCEPT !.sc[k].send = SubSeq(q, m + 1, Len(q))]
           y == <<h, s>>
<1>3. q \in Seq(Req) /\ Len(q) \in Nat
  BY <1>1 DEF State, ConnectConn
<1>4. /\ p \in Seq(Req) /\ Len(p) = m /\ m \in Nat
      /\ \A n \in 1..m : n \in 1..Len(q) /\ p[n] = q[n]
  BY <1>3
<1>5. Writing(h, s, k, 0, b) /\ b.sc[k].send = ToWrite(h, k, m)
  BY WriteBegins
<1>6. Write(h, k) = FoldLeft(LAMBDA g, r : SentOrEmpty(g, k, r), b, p)
  BY <1>2 DEF WriteFirst
<1> HIDE DEF p, b
<1>7. WritingSoFar(k, y, b, p, 0, b)
  BY <1>5 DEF WritingSoFar
<1>8. ASSUME NEW n \in 1..Len(p), NEW g, WritingSoFar(k, y, b, p, n - 1, g)
      PROVE  WritingSoFar(k, y, b, p, n, WriteStep(k, y, g, p[n]))
  <2> DEFINE e == SentOrEmpty(g, k, p[n])
  <2>1. Writing(h, s, k, n - 1, g) /\ g.sc[k].send = b.sc[k].send
    BY <1>8 DEF WritingSoFar
  <2>2. n \in 1..Len(h.sc[k].send) /\ p[n] = h.sc[k].send[n]
    BY <1>4
  <2> HIDE DEF e
  <2>3. Writing(h, s, k, n, e) /\ e.sc[k].send = g.sc[k].send
    BY <1>1, <2>1, <2>2, WriteOne DEF e
  <2>4. WritingSoFar(k, y, b, p, n, e)
    BY <2>1, <2>3 DEF WritingSoFar
  <2> QED BY <2>4 DEF WriteStep, e
<1> DEFINE D == WritingAll!Fold(k, y, b, p)
<1>9. WritingSoFar(k, y, b, p, Len(p), D)
  <2> HIDE DEF y
  <2>1. \A n \in 1..Len(p) : \A g :
           WritingSoFar(k, y, b, p, n - 1, g)
             => WritingSoFar(k, y, b, p, n, WriteStep(k, y, g, p[n]))
    BY <1>8
  <2> QED BY ONLY <1>4, <1>7, <2>1, WritingAll!FoldKeeps
<1>10. D = FoldLeft(LAMBDA g, r : SentOrEmpty(g, k, r), b, p)
  BY DEF WritingAll!Fold, WritingAll!FoldLeft, WritingAll!MapThenFoldSet, WritingAll!Max,
         FoldLeft, MapThenFoldSet, Max, WriteStep
<1> HIDE DEF D
<1>11. Writing(h, s, k, m, D) /\ D.sc[k].send = ToWrite(h, k, m)
  BY <1>4, <1>5, <1>9 DEF WritingSoFar
<1>12. Fit(D, s) /\ InLists(D, v, w)
  BY <1>11, WriteEnds
<1> QED BY <1>6, <1>10, <1>12

-----------------------------------------------------------------------------
(* A connection with events is dealt with.                                 *)

\* What Posted says of connection k.
PostedAt(h, k) ==
    /\ h.sc[k].good =>
         /\ h.sc[k].post \subseteq {"Write"}
         /\ h.sc[k].post # {} => h.sc[k].send # <<>>
    /\ Open(h.sc[k]) /\ ~h.sc[k].good => k # Shared /\ "Error" \in h.sc[k].post
    /\ ~Open(h.sc[k]) => /\ h.sc[k].send = <<>> /\ h.sc[k].sent = <<>>
                         /\ h.sc[k].post = {} /\ h.sc[k].acc = None

\* Posted says this of every connection.
LEMMA PostedIs ==
    ASSUME NEW h
    PROVE  Posted(h) <=> \A k \in Conn : PostedAt(h, k)
BY DEF Posted, PostedAt

\* It depends on no more.
LEMMA PostedSame ==
    ASSUME NEW h, NEW g, NEW k, PostedAt(h, k),
           g.sc[k].good = h.sc[k].good, g.sc[k].link = h.sc[k].link,
           g.sc[k].post = h.sc[k].post, g.sc[k].send = h.sc[k].send,
           g.sc[k].sent = h.sc[k].sent, g.sc[k].acc = h.sc[k].acc
    PROVE  PostedAt(g, k)
BY DEF PostedAt, Open

\* But for events it is as good.
LEMMA TakenCore ==
    ASSUME NEW h, NEW s, Fit(h, s), NEW k \in Conn, NEW v, NEW w, NEW g, Taken(h, g, k, v, w)
    PROVE  /\ Core(g, s, QueuesOf(g)) /\ \A d \in Client : Attending(g, QueuesOf(g), d)
           /\ \A j \in Conn : j # k => PostedAt(g, j)
           /\ h.sc[k].good => Posted(g)
<1>1. /\ Core(h, s, QueuesOf(h)) /\ \A d \in Client : Attending(h, QueuesOf(h), d)
      /\ Posted(h) /\ Known(h)
  BY DEF Fit, Core
<1>2. /\ State(g) /\ g.cc = h.cc /\ g.req = h.req
      /\ \A j \in Conn : /\ g.sc[j].link = h.sc[j].link /\ g.sc[j].good = h.sc[j].good
                         /\ g.sc[j].send = h.sc[j].send /\ g.sc[j].sent = h.sc[j].sent
                         /\ g.sc[j].acc = h.sc[j].acc
                         /\ g.sc[j].post = IF j = k THEN {} ELSE h.sc[j].post
  BY DEF Taken, SameConn
<1>3. QueuesOf(g) = QueuesOf(h)
  BY ONLY <1>2, QueuesSame
<1>4. Like(h, g, QueuesOf(h))
  BY ONLY <1>1, <1>2, LikeSame
<1>5. Core(g, s, QueuesOf(g)) /\ \A d \in Client : Attending(g, QueuesOf(g), d)
  BY ONLY <1>1, <1>3, <1>4, LikeKeeps
<1>6. \A j \in Conn : PostedAt(h, j)
  BY <1>1, PostedIs
<1>7. \A j \in Conn : j # k => PostedAt(g, j)
  BY ONLY <1>2, <1>6, PostedSame
<1>8. ASSUME h.sc[k].good PROVE PostedAt(g, k)
  <2>1. PostedAt(h, k) /\ g.sc[k].post = {} /\ g.sc[k].good
    BY <1>2, <1>6, <1>8
  <2>2. ~Open(h.sc[k]) => h.sc[k].post = {}
    BY ONLY <2>1 DEF PostedAt
  <2>3. Open(h.sc[k]) /\ Open(g.sc[k])
    BY <1>2, <2>2 DEF Taken, Open
  <2> QED BY ONLY <2>1, <2>3 DEF PostedAt
<1>9. ASSUME h.sc[k].good PROVE Posted(g)
  BY <1>7, <1>8, <1>9, PostedIs
<1> QED BY <1>5, <1>7, <1>9

\* A request of a client that is closed is ignored.
LEMMA ClosedIgnored ==
    ASSUME NEW h, NEW s, Core(h, s, QueuesOf(h)), NEW k \in Private, ~h.sc[k].good,
           NEW r \in Req, On(QueuesOf(h), k, r), NEW res \in Response
    PROVE  HandleResponse(h, k, r, res) = h
<1>1. State(h) /\ Pending(h, QueuesOf(h)) /\ Attached(h)
  BY DEF Core
<1>2. r[1] \in Client /\ k \in Conn
  BY Constants
<1>3. ~h.cc[r[1]].open
  BY ONLY <1>1, <1>2, k \in Private, ~h.sc[k].good, r \in Req, On(QueuesOf(h), k, r) DEF Pending
<1>4. h.cc[r[1]].requests = <<>>
  BY ONLY <1>1, <1>2, <1>3 DEF Attached
<1>5. ~Heeded(h, r)
  BY ONLY <1>4 DEF Heeded, Contains
<1> QED BY <1>1, <1>2, <1>5, ResponseIs

\* One step of close(): a request is answered with an error.
FailStep(k, y, g, r) == HandleResponse(g, k, r, "err")

\* Nothing has changed.
Unchanged(x, y, b, q, n, g) == g = b

\* All of them leave h as it was, by induction.
FailAll == INSTANCE LeftFold WITH Op <- FailStep, P <- Unchanged

\* The requests on connection k are answered: none is heeded.
LEMMA FailIgnored ==
    ASSUME NEW h, NEW s, Core(h, s, QueuesOf(h)), NEW k \in Private, ~h.sc[k].good
    PROVE  FoldLeft(LAMBDA g, r : HandleResponse(g, k, r, "err"), h, Unanswered(h, k)) = h
<1> DEFINE q == Unanswered(h, k)
<1>1. q = QueuesOf(h)[k] /\ k \in Conn
  BY Constants DEF Unanswered, QueuesOf
<1>2. QueuesOf(h) \in Queues
  BY DEF Core
<1>3. q \in Seq(Req)
  BY ONLY <1>1, <1>2 DEF Queues
<1> HIDE DEF q
<1>4. \A n \in 1..Len(q) : q[n] \in Req /\ On(QueuesOf(h), k, q[n])
  BY ONLY <1>1, <1>3 DEF On, Contains
<1>5. \A n \in 1..Len(q) : FailStep(k, 0, h, q[n]) = h
  BY <1>4, ClosedIgnored DEF FailStep, Response
<1> DEFINE D == FailAll!Fold(k, 0, h, q)
<1>6. Unchanged(k, 0, h, q, Len(q), D)
  <2>1. Unchanged(k, 0, h, q, 0, h)
    BY DEF Unchanged
  <2>2. \A n \in 1..Len(q) : \A g :
           Unchanged(k, 0, h, q, n - 1, g) => Unchanged(k, 0, h, q, n, FailStep(k, 0, g, q[n]))
    BY ONLY <1>5 DEF Unchanged
  <2> QED BY ONLY <1>3, <2>1, <2>2, FailAll!FoldKeeps
<1>7. D = FoldLeft(LAMBDA g, r : HandleResponse(g, k, r, "err"), h, q)
  BY DEF FailAll!Fold, FailAll!FoldLeft, FailAll!MapThenFoldSet, FailAll!Max,
         FoldLeft, MapThenFoldSet, Max, FailStep
<1> QED BY <1>6, <1>7 DEF Unchanged, q

\* h with connection k closed.
Shut(h, k) == [h EXCEPT !.sc[k].link = "closed", !.sc[k].good = FALSE,
                        !.sc[k].send = <<>>, !.sc[k].sent = <<>>]

\* g is h with connection k closed, and nothing else.
OnlyShut(h, g, k) ==
    /\ State(g) /\ g.cc = h.cc /\ g.req = h.req /\ g.idle = h.idle /\ g.postS = h.postS
    /\ g.sc[k].link = "closed" /\ ~g.sc[k].good /\ g.sc[k].send = <<>> /\ g.sc[k].sent = <<>>
    /\ \A j \in Conn : /\ g.sc[j].post = h.sc[j].post /\ g.sc[j].acc = h.sc[j].acc
                       /\ g.sc[j].next = h.sc[j].next
                       /\ j # k => g.sc[j] = h.sc[j]

\* Nothing else changes.
LEMMA ShutIs ==
    ASSUME NEW h, State(h), NEW k \in Conn
    PROVE  OnlyShut(h, Shut(h, k), k)
<1> DEFINE y == [h.sc[k] EXCEPT !.link = "closed", !.good = FALSE, !.send = <<>>, !.sent = <<>>]
           g == Shut(h, k)
<1>1. h.sc[k] \in ConnectConn /\ h.sc \in [Conn -> ConnectConn]
  BY DEF State
<1>2. /\ y \in ConnectConn /\ y.link = "closed" /\ ~y.good /\ y.send = <<>> /\ y.sent = <<>>
      /\ y.post = h.sc[k].post /\ y.acc = h.sc[k].acc /\ y.next = h.sc[k].next
  <2>1. <<>> \in Seq(Req)
    OBVIOUS
  <2> QED BY <1>1, <2>1 DEF ConnectConn
<1>3. /\ DOMAIN g = Parts /\ g.cc = h.cc /\ g.req = h.req /\ g.idle = h.idle
      /\ g.postS = h.postS /\ g.postA = h.postA /\ g.sc = [h.sc EXCEPT ![k] = y]
  BY <1>1 DEF Shut, State, Parts
<1> HIDE DEF g, y
<1>4. \A j \in Conn : g.sc[j] = IF j = k THEN y ELSE h.sc[j]
  BY ONLY <1>1, <1>3
<1>5. g.sc \in [Conn -> ConnectConn]
  BY ONLY <1>1, <1>2, <1>3
<1>6. State(g)
  BY <1>3, <1>5 DEF State
<1>7. OnlyShut(h, g, k)
  BY ONLY <1>2, <1>3, <1>4, <1>6, k \in Conn DEF OnlyShut
<1> QED BY <1>7 DEF g

\* A connection whose client was closed is closed and put back.
LEMMA CloseFits ==
    ASSUME NEW h, NEW s, Core(h, s, QueuesOf(h)),
           \A d \in Client : Attending(h, QueuesOf(h), d),
           NEW v, NEW w, InLists(h, v, w), NEW k \in Private, ~h.sc[k].good, ~Contains(v, k),
           h.sc[k].post = {}, \A j \in Conn : j # k => PostedAt(h, j),
           NEW u, u = [s EXCEPT ![k] = Clean]
    PROVE  Fit(Close(h, k), u) /\ \E l : InLists(Close(h, k), l, w)
<1>1. k \in Conn /\ k # Shared /\ State(h) /\ s \in [Conn -> Sessions] /\ Attached(h)
  BY Constants DEF Core
<1>2. h.sc[k].acc = None
  BY <1>1 DEF Attached
<1> DEFINE f == Shut(h, k)
           g == PutPrivate(f, k)
<1>3. Close(h, k) = g
  <2>1. FoldLeft(LAMBDA e, r : HandleResponse(e, k, r, "err"), h, Unanswered(h, k)) = h
    BY FailIgnored
  <2> QED BY <1>2, <2>1 DEF Close, Shut
<1>4. OnlyShut(h, f, k)
  BY <1>1, ShutIs
<1>5. /\ State(f) /\ f.cc = h.cc /\ f.req = h.req /\ f.idle = h.idle /\ f.postS = h.postS
      /\ f.sc[k].link = "closed" /\ ~f.sc[k].good /\ f.sc[k].send = <<>> /\ f.sc[k].sent = <<>>
      /\ \A j \in Conn : /\ f.sc[j].post = h.sc[j].post /\ f.sc[j].acc = h.sc[j].acc
                         /\ f.sc[j].next = h.sc[j].next
                         /\ j # k => f.sc[j] = h.sc[j]
  BY <1>4 DEF OnlyShut
<1> HIDE DEF f
<1>6. \A j \in Conn : Contains(v, j) => f.sc[j].acc = None /\ f.sc[j].link # "none"
  BY <1>5 DEF InLists
<1>7. InLists(f, v, w)
  BY ONLY <1>5, <1>6, InLists(h, v, w), ListsSame
<1>8. /\ State(g) /\ g.cc = f.cc /\ g.req = f.req
      /\ \A j \in Conn : /\ SameConn(f.sc[j], g.sc[j])
                         /\ g.sc[j].post = f.sc[j].post /\ g.sc[j].acc = f.sc[j].acc
  BY <1>1, <1>5, PushedIdle DEF PutPrivate
<1>9. \E l : InLists(g, l, w)
  <2>1. \A j \in Conn : /\ g.sc[j].next = g.sc[j].next /\ g.sc[j].post = g.sc[j].post
                        /\ g.sc[j].link = g.sc[j].link
                        /\ g.sc[j].acc = IF j = k THEN None ELSE g.sc[j].acc
    BY ONLY <1>1, <1>2, <1>5, <1>8
  <2>2. f.sc[k].post = {} /\ f.sc[k].link # "none"
    BY <1>1, <1>5
  <2> DEFINE e == PutPrivate(f, k)
  <2>3. g.idle = e.idle /\ g.postS = e.postS /\ e = PutPrivate(f, k)
    OBVIOUS
  <2>4. \A j \in Conn : e.sc[j] = g.sc[j]
    OBVIOUS
  <2> HIDE DEF g, e
  <2> QED BY ONLY <1>5, <1>7, <2>1, <2>2, <2>3, <2>4, k \in Private, ~Contains(v, k), PutKeeps
<1> HIDE DEF g
<1>10. /\ \A j \in Conn : /\ g.sc[j].acc = h.sc[j].acc /\ g.sc[j].post = h.sc[j].post
                          /\ j # k => /\ g.sc[j].good = h.sc[j].good
                                      /\ g.sc[j].link = h.sc[j].link
                                      /\ g.sc[j].send = h.sc[j].send
                                      /\ g.sc[j].sent = h.sc[j].sent
       /\ g.sc[k].link = "closed" /\ ~g.sc[k].good /\ g.sc[k].send = <<>> /\ g.sc[k].sent = <<>>
       /\ g.cc = h.cc /\ g.req = h.req
  BY ONLY <1>1, <1>5, <1>8 DEF SameConn
<1>11. /\ QueuesOf(g) \in Queues /\ QueuesOf(g)[k] = <<>>
       /\ \A j \in Conn : j # k => QueuesOf(g)[j] = QueuesOf(h)[j]
  <2>1. \A j \in Conn : g.sc[j] \in ConnectConn
    BY ONLY <1>8 DEF SameConn
  <2>2. \A j \in Conn : g.sc[j].sent \in Seq(Req) /\ g.sc[j].send \in Seq(Req)
    BY ONLY <2>1 DEF ConnectConn
  <2>3. \A j \in Conn : g.sc[j].sent \o g.sc[j].send \in Seq(Req)
    BY ONLY <2>2
  <2>4. QueuesOf(g) \in Queues
    BY ONLY <2>3 DEF QueuesOf, Queues
  <2>5. <<>> \o <<>> = <<>>
    OBVIOUS
  <2>6. QueuesOf(g)[k] = <<>>
    BY ONLY <1>1, <1>10, <2>5 DEF QueuesOf
  <2>7. \A j \in Conn : j # k => QueuesOf(g)[j] = QueuesOf(h)[j]
    BY ONLY <1>10 DEF QueuesOf
  <2> QED BY ONLY <2>4, <2>6, <2>7
<1>12. u \in [Conn -> Sessions] /\ u[k] = Clean /\ \A j \in Conn : j # k => u[j] = s[j]
  BY <1>1 DEF Sessions, Clean
<1>13. Reopens(h, g, s, u, QueuesOf(h), QueuesOf(g), k)
  BY ONLY <1>1, <1>2, <1>8, <1>10, <1>11, <1>12, ~h.sc[k].good DEF Reopens
<1>14. Core(g, u, QueuesOf(g)) /\ \A d \in Client : Attending(g, QueuesOf(g), d)
  BY ONLY <1>1, <1>13, Core(h, s, QueuesOf(h)), \A d \in Client : Attending(h, QueuesOf(h), d),
          ReopensKeeps
<1>15. Posted(g)
  <2>1. \A j \in Conn : j # k => PostedAt(g, j)
    BY ONLY <1>10, \A j \in Conn : j # k => PostedAt(h, j), PostedSame
  <2>2. PostedAt(g, k)
    BY ONLY <1>1, <1>2, <1>10, h.sc[k].post = {} DEF PostedAt, Open
  <2> QED BY ONLY <2>1, <2>2, PostedIs
<1>16. Fit(g, u)
  BY ONLY <1>14, <1>15 DEF Fit
<1> QED BY <1>3, <1>9, <1>16

\* A connection is written or closed.
LEMMA PostConnectSuits ==
    ASSUME Held, Suits, PostConnect
    PROVE  Suits'
<1> DEFINE k == postS.head
           evts == sc[k].post
           h == [PopFront(Handler, "postS") EXCEPT !.sc[k].post = {}]
           written == IF sc[k].good /\ evts = {"Write"} THEN Write(h, k) ELSE h
           close == (~sc[k].good \/ "Error" \in evts) /\ Open(sc[k])
<1>1. /\ k # None
      /\ Becomes(IF close THEN Close(written, k) ELSE written)
      /\ session' = IF close THEN [session EXCEPT ![k] = Clean] ELSE session
  BY DEF PostConnect
<1>2. PICK v, w : InLists(Handler, v, w)
  BY DEF Suits
<1>3. Fit(Handler, session) /\ GoodOpen(Handler) /\ State(Handler)
  BY DEF Suits, Held, HandlerInv
<1>4. Handler.sc = sc /\ Handler.postS = postS
  BY Fields
<1>5. k \in Conn
  BY <1>1, <1>3, <1>4 DEF State, List
<1> HIDE DEF k
<1>6. Taken(Handler, h, k, v, w)
  <2>1. k = Handler.postS.head
    BY <1>4 DEF k
  <2>2. h = Popped(Handler, k)
    BY DEF Popped
  <2> HIDE DEF h
  <2> QED BY ONLY <1>2, <1>3, <1>5, <2>1, <2>2, TakeEventsKeeps
<1> HIDE DEF h
<1>7. /\ Core(h, session, QueuesOf(h)) /\ \A d \in Client : Attending(h, QueuesOf(h), d)
      /\ \A j \in Conn : j # k => PostedAt(h, j)
      /\ sc[k].good => Posted(h)
  BY ONLY <1>3, <1>4, <1>5, <1>6, TakenCore
<1>8. /\ h.sc[k].good = sc[k].good /\ h.sc[k].post = {} /\ h.sc[k].link = sc[k].link
      /\ evts # {} /\ ~Contains(v, k) /\ InLists(h, v, Tail(w))
  BY <1>4, <1>5, <1>6 DEF Taken, SameConn
<1>9. PostedAt(Handler, k) /\ (sc[k].good => Open(sc[k]))
  BY <1>3, <1>4, <1>5, PostedIs DEF Fit, GoodOpen
<1>10. CASE sc[k].good
  <2>1. evts = {"Write"}
    BY <1>4, <1>8, <1>9, <1>10 DEF PostedAt
  <2>2. ~close /\ written = Write(h, k)
    BY <1>10, <2>1
  <2>3. Fit(h, session)
    BY <1>7, <1>10 DEF Fit
  <2>4. h.sc[k].good /\ Open(h.sc[k])
    BY <1>8, <1>9, <1>10 DEF Open
  <2>5. Fit(Write(h, k), session) /\ InLists(Write(h, k), v, Tail(w))
    BY ONLY <1>5, <1>8, <2>3, <2>4, WriteFits
  <2>6. Becomes(Write(h, k)) /\ session' = session
    BY <1>1, <2>2
  <2> QED BY ONLY <2>5, <2>6, BecomesSuits
<1>11. CASE ~sc[k].good
  <2>1. Open(sc[k])
    BY <1>4, <1>8, <1>9 DEF PostedAt
  <2>2. close /\ written = h
    BY <1>11, <2>1
  <2>3. k \in Private
    BY <1>4, <1>5, <1>9, <1>11, <2>1, Constants DEF PostedAt
  <2> DEFINE u == [session EXCEPT ![k] = Clean]
             e == Close(h, k)
  <2>4. Becomes(e) /\ session' = u
    BY <1>1, <2>2
  <2>5. ~h.sc[k].good
    BY <1>8, <1>11
  <2>6. Fit(e, u) /\ \E l : InLists(e, l, Tail(w))
    BY ONLY <1>7, <1>8, <2>3, <2>5, CloseFits
  <2> HIDE DEF e, u
  <2> QED BY ONLY <2>4, <2>6, BecomesSuits
<1> QED BY <1>10, <1>11

-----------------------------------------------------------------------------
(* The lists as Exclusive sees them.                                       *)

\* The n-th connection of w, counted from 0.
NthOf(w) == [n \in 0..Cardinality(Conn) |-> IF n < Len(w) THEN w[n + 1] ELSE None]

\* A list is no longer than there are connections, and has as many as its length.
LEMMA RunsShort ==
    ASSUME NEW h, NEW l, NEW w, Runs(h, l, w)
    PROVE  /\ Cardinality(Conn) \in Nat /\ Len(w) \in Nat /\ Len(w) <= Cardinality(Conn)
           /\ Cardinality({w[i] : i \in 1..Len(w)}) = Len(w)
<1> DEFINE n == Len(w)
           T == {w[i] : i \in 1..n}
<1>1. w \in Seq(Conn) /\ n \in Nat /\ \A i, j \in 1..n : w[i] = w[j] => i = j
  BY DEF Runs
<1>2. IsFiniteSet(Conn)
  <2>1. IsFiniteSet(Private) /\ IsFiniteSet({Shared})
    BY SessionAssumption, FS_Singleton
  <2> QED BY <2>1, FS_Union DEF Conn
<1>3. w \in [1..n -> T] /\ \A i \in 1..n : w[i] \in Conn
  BY <1>1
<1>4. w \in Bijection(1..n, T)
  <2>1. IsInjective(w)
    BY <1>1, <1>3 DEF IsInjective
  <2>2. \A t \in T : \E i \in 1..n : w[i] = t
    OBVIOUS
  <2> QED BY <1>3, <2>1, <2>2 DEF Bijection, Injection, Surjection
<1>5. ExistsBijection(1..n, T)
  BY <1>4 DEF ExistsBijection
<1>6. IsFiniteSet(1..n) /\ Cardinality(1..n) = n
  <2> HIDE DEF n
  <2>1. 1 \in Int /\ n \in Int
    BY <1>1
  <2>2. IsFiniteSet(1..n) /\ Cardinality(1..n) = IF 1 > n THEN 0 ELSE n - 1 + 1
    BY ONLY <2>1, FS_Interval
  <2> QED BY <1>1, <2>2
<1> HIDE DEF n, T
<1>7. Cardinality(T) = n
  BY ONLY <1>5, <1>6, FS_Bijection
<1>8. T \in SUBSET Conn
  BY <1>3 DEF T
<1>9. Cardinality(T) <= Cardinality(Conn) /\ Cardinality(Conn) \in Nat
  BY ONLY <1>2, <1>8, FS_Subset, FS_CardinalityType
<1> QED BY <1>1, <1>7, <1>9 DEF n, T

\* It runs through the connections of w in turn.
LEMMA NthIs ==
    ASSUME NEW l, NEW w, Runs(Handler, l, w)
    PROVE  Nth(l) = NthOf(w)
<1> DEFINE C == Cardinality(Conn)
           e(f) == [n \in 0..C |-> IF n = 0 THEN l.head
                                   ELSE IF f[n - 1] = None THEN None ELSE sc[f[n - 1]].next]
           g == NthOf(w)
           f == CHOOSE f : f = e(f)
<1>1. C \in Nat /\ Len(w) \in Nat /\ Len(w) <= C
  BY RunsShort
<1>2. /\ w \in Seq(Conn)
      /\ l.head = IF w = <<>> THEN None ELSE w[1]
      /\ \A i \in 1..Len(w) : sc[w[i]].next = IF i = Len(w) THEN None ELSE w[i + 1]
  BY Fields DEF Runs
<1>3. \A i \in 1..Len(w) : w[i] # None
  BY <1>2, Constants
<1> HIDE DEF C
<1>4. g = [n \in 0..C |-> IF n < Len(w) THEN w[n + 1] ELSE None]
  BY DEF NthOf, C
<1> HIDE DEF g
<1>5. \A n \in 0..C : g[n] = e(g)[n]
  <2> TAKE n \in 0..C
  <2>1. CASE n = 0
    <3>1. e(g)[n] = l.head
      BY <1>1, <2>1
    <3>2. g[n] = IF 0 < Len(w) THEN w[1] ELSE None
      BY <1>1, <1>4, <2>1
    <3>3. w = <<>> <=> ~(0 < Len(w))
      BY <1>2
    <3> QED BY <1>2, <3>1, <3>2, <3>3
  <2>2. CASE n # 0
    <3>1. n - 1 \in 0..C /\ n \in 1..C /\ (n - 1) + 1 = n
      BY <1>1, <2>2
    <3>2. g[n - 1] = IF n - 1 < Len(w) THEN w[n] ELSE None
      BY <1>4, <3>1
    <3>3. e(g)[n] = IF g[n - 1] = None THEN None ELSE sc[g[n - 1]].next
      BY <2>2
    <3>4. CASE n - 1 < Len(w)
      <4>1. n \in 1..Len(w)
        BY <1>1, <3>1, <3>4
      <4>2. e(g)[n] = IF n = Len(w) THEN None ELSE w[n + 1]
        BY ONLY <1>2, <1>3, <3>2, <3>3, <3>4, <4>1
      <4>3. n < Len(w) <=> n # Len(w)
        BY ONLY <1>1, <4>1
      <4> QED BY ONLY <1>4, <4>2, <4>3, n \in 0..C
    <3>5. CASE ~(n - 1 < Len(w))
      <4>1. ~(n < Len(w))
        BY ONLY <1>1, <3>1, <3>5
      <4> QED BY ONLY <1>4, <3>2, <3>3, <3>5, <4>1, n \in 0..C
    <3> QED BY <3>4, <3>5
  <2> QED BY <2>1, <2>2
<1>6. g = e(g)
  BY <1>4, <1>5
<1>7. f = e(f)
  BY <1>6
<1>8. Nth(l) = f
  BY DEF Nth, C
<1> HIDE DEF f
<1> DEFINE T == {n \in Nat : n \in 0..C => f[n] = g[n]}
<1>9. 0 \in T
  <2>1. f[0] = l.head /\ g[0] = l.head
    BY <1>1, <1>6, <1>7
  <2> QED BY <2>1
<1>10. ASSUME NEW n \in Nat, n \in T PROVE n + 1 \in T
  <2> SUFFICES ASSUME n + 1 \in 0..C PROVE f[n + 1] = g[n + 1]
    OBVIOUS
  <2>1. n \in 0..C /\ n + 1 # 0 /\ (n + 1) - 1 = n
    BY <1>1
  <2>2. f[n] = g[n]
    BY <1>10, <2>1
  <2>3. f[n + 1] = IF f[n] = None THEN None ELSE sc[f[n]].next
    BY <1>7, <2>1
  <2>4. g[n + 1] = IF g[n] = None THEN None ELSE sc[g[n]].next
    BY <1>6, <2>1
  <2> QED BY <2>2, <2>3, <2>4
<1> HIDE DEF T
<1>11. Nat \subseteq T
  BY ONLY <1>9, <1>10, WriteAll!AllNumbers
<1>12. \A n \in 0..C : f[n] = g[n]
  BY <1>1, <1>11 DEF T
<1>13. f = g
  <2>1. f = [n \in 0..C |-> f[n]]
    BY <1>7
  <2> QED BY <1>4, <1>12, <2>1
<1> QED BY <1>8, <1>13 DEF g

\* It is sound.
LEMMA RunsSound ==
    ASSUME NEW l, NEW w, Runs(Handler, l, w)
    PROVE  Sound(l) /\ \A k \in Listed(l) : Contains(w, k)
<1> DEFINE C == Cardinality(Conn)
           T == {w[i] : i \in 1..Len(w)}
<1>1. C \in Nat /\ Len(w) \in Nat /\ Len(w) <= C
  BY RunsShort
<1>10. Cardinality(T) = Len(w)
  BY RunsShort
<1>2. /\ w \in Seq(Conn) /\ l.size = Len(w)
      /\ l.tail = IF w = <<>> THEN None ELSE w[Len(w)]
  BY DEF Runs
<1>3. \A i \in 1..Len(w) : w[i] # None
  BY <1>2, Constants
<1>4. Nth(l) = NthOf(w)
  BY NthIs
<1> HIDE DEF C
<1>5. \A n \in 0..C : Nth(l)[n] = IF n < Len(w) THEN w[n + 1] ELSE None
  BY <1>4 DEF NthOf, C
<1>6. Listed(l) = T
  <2>0. Listed(l) = {Nth(l)[n] : n \in 0..C} \ {None}
    BY DEF Listed, C
  <2>1. ASSUME NEW i \in 1..Len(w) PROVE w[i] \in Listed(l)
    <3>1. i - 1 \in 0..C /\ i - 1 < Len(w) /\ (i - 1) + 1 = i
      BY ONLY <1>1, i \in 1..Len(w)
    <3>2. Nth(l)[i - 1] = w[i]
      BY ONLY <1>5, <3>1
    <3> QED BY ONLY <1>3, <2>0, <3>1, <3>2, i \in 1..Len(w)
  <2>2. ASSUME NEW n \in 0..C, Nth(l)[n] # None PROVE Nth(l)[n] \in T
    <3>1. n < Len(w) /\ Nth(l)[n] = w[n + 1]
      BY ONLY <1>5, <2>2
    <3>2. n + 1 \in 1..Len(w)
      BY ONLY <1>1, <3>1, n \in 0..C
    <3> QED BY ONLY <3>1, <3>2
  <2> QED BY ONLY <2>0, <2>1, <2>2
<1>7. l.size > 0 => Nth(l)[l.size - 1] = l.tail
  <2> SUFFICES ASSUME l.size > 0 PROVE Nth(l)[l.size - 1] = l.tail
    OBVIOUS
  <2>1. Len(w) - 1 \in 0..C /\ Len(w) - 1 < Len(w) /\ (Len(w) - 1) + 1 = Len(w) /\ w # <<>>
    BY <1>1, <1>2
  <2> QED BY ONLY <1>2, <1>5, <2>1
<1>8. Nth(l)[l.size] = None
  <2>1. Len(w) \in 0..C /\ ~(Len(w) < Len(w))
    BY <1>1
  <2> QED BY ONLY <1>2, <1>5, <2>1
<1>9. \A k \in T : Contains(w, k)
  BY <1>2 DEF Contains
<1> QED BY <1>1, <1>2, <1>6, <1>7, <1>8, <1>9, <1>10 DEF Sound

-----------------------------------------------------------------------------
(* The theorems.                                                           *)

\* The invariant says that lists and attachments are sound ...
LEMMA SuitsExclusive ==
    ASSUME Suits
    PROVE  Exclusive
<1>1. PICK v, w : InLists(Handler, v, w)
  BY DEF Suits
<1>2. Attached(Handler)
  BY DEF Suits, Fit, Core
<1>3. Handler.cc = cc /\ Handler.sc = sc /\ Handler.idle = idle /\ Handler.postS = postS
  BY Fields
<1>4. Runs(Handler, idle, v) /\ Runs(Handler, postS, w)
  BY <1>1, <1>3 DEF InLists
<1>5. Sound(idle) /\ \A k \in Listed(idle) : Contains(v, k)
  BY ONLY <1>4, RunsSound
<1>6. Sound(postS)
  BY ONLY <1>4, RunsSound
<1>7. v \in Seq(Conn)
  BY <1>4 DEF Runs
<1>8. \A k : Contains(v, k) => k \in Conn
  BY <1>7 DEF Contains
<1>9. \A k \in Listed(idle) : k \in Private /\ sc[k].acc = None /\ sc[k].post = {}
  BY <1>1, <1>3, <1>5, <1>8 DEF InLists
<1>10. \A c \in Client, k \in Conn : cc[c].conn = k <=> sc[k].acc = c
  BY <1>2, <1>3 DEF Attached
<1> QED BY <1>5, <1>6, <1>9, <1>10 DEF Exclusive

\* ... that what is kept on a connection is kept for its client ...
LEMMA SuitsIsolated ==
    ASSUME Suits
    PROVE  Isolated
<1> DEFINE h == Handler
<1>1. /\ State(h) /\ Pending(h, QueuesOf(h)) /\ Attached(h) /\ Cleared(h, session)
  BY DEF Suits, Fit, Core
<1>2. h.sc = sc
  BY Fields
<1> HIDE DEF h
<1> SUFFICES ASSUME NEW k \in Conn, Open(sc[k]), sc[k].good, session[k] # Clean
             PROVE  /\ sc[k].acc # None
                    /\ \A i \in DOMAIN sc[k].sent : sc[k].sent[i][1] = sc[k].acc
                    /\ \A i \in DOMAIN sc[k].send : sc[k].send[i][1] = sc[k].acc
  BY DEF Isolated
<1>3. sc[k].acc # None
  BY <1>1, <1>2 DEF Cleared
<1>4. k \in Private
  BY <1>1, <1>2, <1>3 DEF Attached
<1>5. \A r \in Req : On(QueuesOf(h), k, r) => sc[k].acc = r[1]
  BY <1>1, <1>2, <1>4 DEF Pending
<1> DEFINE a == sc[k].sent
           b == sc[k].send
<1>6. a \in Seq(Req) /\ b \in Seq(Req) /\ QueuesOf(h)[k] = a \o b
  BY <1>1, <1>2 DEF State, ConnectConn, QueuesOf
<1> HIDE DEF a, b
<1>7. ASSUME NEW r, Contains(a, r) \/ Contains(b, r) PROVE r \in Req /\ On(QueuesOf(h), k, r)
  <2>1. Contains(a \o b, r)
    BY ONLY <1>6, <1>7, BothContain
  <2>2. a \o b \in Seq(Req)
    BY ONLY <1>6
  <2> QED BY <1>6, <2>1, <2>2 DEF On, Contains
<1>8. \A i \in DOMAIN a : a[i][1] = sc[k].acc
  BY <1>5, <1>6, <1>7 DEF Contains
<1>9. \A i \in DOMAIN b : b[i][1] = sc[k].acc
  BY <1>5, <1>6, <1>7 DEF Contains
<1> QED BY <1>3, <1>8, <1>9 DEF a, b

\* ... and that counters and sessions are in step.
LEMMA SuitsInStep ==
    ASSUME Suits
    PROVE  InStep
<1> DEFINE h == Handler
           q == QueuesOf(h)
<1>1. Attached(h) /\ Counts(h, session, q)
  BY DEF Suits, Fit, Core
<1>2. h.cc = cc
  BY Fields
<1> HIDE DEF h, q
<1> SUFFICES ASSUME NEW c \in Client, NEW k \in Private, cc[c].conn = k, cc[c].good
             PROVE  /\ cc[c].multi > 0 <=> session[k].multi
                    /\ session[k].watch => cc[c].watch > 0
                    /\ cc[c].sub = session[k].subs
  BY DEF InStep
<1>3. cc[c].conn # None
  BY Constants
<1>4. Alive(h, c)
  BY <1>1, <1>2, <1>3 DEF Attached, Alive
<1>5. InSync(cc[c], session[k], Count(h, q, k, "watch"), Count(h, q, k, "multi"),
             Count(h, q, k, "subscribe"))
  BY <1>1, <1>2, <1>3, <1>4 DEF Counts
<1> QED BY <1>5 DEF InSync

\* It holds at the start, ...
LEMMA InitSuits ==
    ASSUME Orderly, Init
    PROVE  Suits
<1> DEFINE h == Handler
           q == QueuesOf(h)
<1>1. State(h) /\ session \in [Conn -> Sessions]
  BY InitSession DEF SessionInv, Held, HandlerInv
<1>2. /\ h.cc = cc /\ h.sc = sc /\ h.req = req /\ h.idle = idle /\ h.postS = postS
  BY Fields
<1>3. /\ \A c \in Client : /\ cc[c].open /\ cc[c].requests = <<>> /\ cc[c].conn = None
                           /\ Nothing(cc[c])
      /\ \A k \in Conn : /\ sc[k].link = "none" /\ ~sc[k].good /\ sc[k].send = <<>>
                         /\ sc[k].sent = <<>> /\ sc[k].post = {} /\ sc[k].acc = None
                         /\ sc[k].next = None /\ session[k] = Clean
      /\ \A r \in Req : req[r].cmd = "none" /\ req[r].res = "none"
  BY DEF Init, Nothing
<1>4. /\ idle.head = None /\ idle.tail = None /\ idle.size = 0
      /\ postS.head = None /\ postS.tail = None /\ postS.size = 0
  BY DEF Init
<1> HIDE DEF h, q
<1>5. \A k \in Conn : q[k] = <<>>
  <2>1. <<>> \o <<>> = <<>>
    OBVIOUS
  <2>2. \A k \in Conn : q[k] = sc[k].sent \o sc[k].send
    BY <1>2 DEF q, QueuesOf
  <2> QED BY <1>3, <2>1, <2>2
<1>6. q \in Queues
  <2>1. q = [k \in Conn |-> <<>>]
    BY <1>5 DEF q, QueuesOf
  <2>2. <<>> \in Seq(Req)
    OBVIOUS
  <2> QED BY <2>1, <2>2 DEF Queues
<1>7. \A k \in Conn, r \in Req : ~On(q, k, r)
  BY <1>5 DEF On, Contains
<1>8. Once(q)
  <2>1. \A k \in Conn : 1..Len(q[k]) = {}
    BY <1>5
  <2> QED BY <2>1 DEF Once
<1>9. Pending(h, q) /\ Blocked(h, q)
  BY <1>7 DEF Pending, Blocked
<1>10. Attached(h)
  BY <1>2, <1>3, Constants DEF Attached
<1>11. Counts(h, session, q)
  <2>1. \A c \in Client : OneUse(cc[c], c)
    BY <1>3 DEF Orderly, OneUse, Nothing
  <2> QED BY <1>2, <1>3, <2>1 DEF Counts
<1>12. Cleared(h, session) /\ Known(h)
  BY <1>2, <1>3 DEF Cleared, Known
<1>13. \A c \in Client : Attending(h, q, c)
  BY <1>2, <1>3 DEF Attending
<1>14. Posted(h)
  BY <1>2, <1>3 DEF Posted, Open
<1>15. Fit(h, session)
  BY <1>1, <1>6, <1>8, <1>9, <1>10, <1>11, <1>12, <1>13, <1>14 DEF Fit, Core, q
<1>16. \A k : ~Contains(<<>>, k)
  BY DEF Contains
<1>17. Runs(h, idle, <<>>) /\ Runs(h, postS, <<>>)
  BY <1>4 DEF Runs
<1>18. InLists(h, <<>>, <<>>)
  BY <1>2, <1>3, <1>16, <1>17 DEF InLists
<1> QED BY <1>15, <1>18 DEF Suits, h

\* ... a step in which the handler does nothing keeps it ...
LEMMA SameSuits ==
    ASSUME Suits, UNCHANGED <<cc, sc, idle, req, postA, postS, session>>
    PROVE  Suits'
<1>1. Becomes(Handler)
  BY Fields DEF Becomes
<1>2. PICK v, w : InLists(Handler, v, w)
  BY DEF Suits
<1> QED BY <1>1, <1>2, BecomesSuits DEF Suits

\* ... and so does every other.
LEMMA NextSuits ==
    ASSUME Orderly, SessionInv, Suits, [Next]_vars
    PROVE  Suits'
<1>0. Held
  BY DEF SessionInv
<1>1. ASSUME NEW c \in Client, NEW cmd \in Uses[c], Read(c, cmd) PROVE Suits'
  BY <1>0, <1>1, ReadSuits
<1>2. ASSUME NEW c \in Client, ClientError(c) PROVE Suits'
  BY <1>2, ClientErrorSuits
<1>3. ASSUME NEW k \in Conn, ServerError(k) PROVE Suits'
  BY <1>3 DEF ServerError, Orderly
<1>4. ASSUME NEW k \in Conn, ReadReply(k) PROVE Suits'
  BY <1>0, <1>4, ReadReplySuits
<1>5. ASSUME NEW k \in Conn, ReadMessage(k) PROVE Suits'
  BY <1>0, <1>5, ReadMessageSuits
<1>6. CASE EndWait
  BY <1>6, SameSuits DEF EndWait
<1>7. CASE PostConnect
  BY <1>0, <1>7, PostConnectSuits
<1>8. CASE PostAccept
  BY <1>0, <1>8, PostAcceptSuits
<1>9. CASE UNCHANGED vars
  BY <1>9, SameSuits DEF vars
<1> QED BY <1>1, <1>2, <1>3, <1>4, <1>5, <1>6, <1>7, <1>8, <1>9 DEF Next

\* Where Orderly holds the handler is always in a state of the invariant, however
\* many clients and private connections there are.
THEOREM SuitsAlways == Orderly => (Spec => []Suits)
<1> SUFFICES ASSUME Orderly PROVE Spec => []Suits
  OBVIOUS
<1>1. Init => Suits
  BY InitSuits
<1>2. SessionInv /\ Suits /\ [Next]_vars => Suits'
  BY NextSuits
<1>3. Spec => []SessionInv
  BY SessionInvariant
<1> QED BY <1>1, <1>2, <1>3, PTL DEF Spec

\* A private connection serves one client at a time: it is attached to at most
\* one, is not idle meanwhile, and putPrivateConnection, which asks neither, puts
\* it neither in the list of the idle connections twice nor there while it has
\* events.
THEOREM ExclusiveAlways == Orderly => (Spec => []Exclusive)
<1> SUFFICES ASSUME Orderly PROVE Spec => []Exclusive
  OBVIOUS
<1>1. Suits => Exclusive
  BY SuitsExclusive
<1>2. Spec => []Suits
  BY SuitsAlways
<1> QED BY <1>1, <1>2, PTL

\* Nobody inherits a transaction, watched keys or a subscription: when a
\* connection is put back the server keeps nothing on it.
THEOREM IsolatedAlways == Orderly => (Spec => []Isolated)
<1> SUFFICES ASSUME Orderly PROVE Spec => []Isolated
  OBVIOUS
<1>1. Suits => Isolated
  BY SuitsIsolated
<1>2. Spec => []Suits
  BY SuitsAlways
<1> QED BY <1>1, <1>2, PTL

\* The counters of a client, which the responses it is passed change, agree with
\* the session that the server keeps for it.
THEOREM InStepAlways == Orderly => (Spec => []InStep)
<1> SUFFICES ASSUME Orderly PROVE Spec => []InStep
  OBVIOUS
<1>1. Suits => InStep
  BY SuitsInStep
<1>2. Spec => []Suits
  BY SuitsAlways
<1> QED BY <1>1, <1>2, PTL
=============================================================================
