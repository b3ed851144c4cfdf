# TLA+ specifications of predixy

predixy is a proxy for Redis: clients connect to it as to a Redis server, and
it passes each request on to one of the servers of a Redis Cluster, of groups
watched by Redis Sentinel, or of fixed groups. This directory holds TLA+ models
of how it does that, the TLC configurations that check them on small instances,
and proofs, checked by TLAPS, of what matters most.

## The system

predixy runs some worker threads, each with a `Handler`. A handler has an event
loop (epoll, kqueue or poll), the clients that it was given
(`AcceptConnection`), and for each server a `ConnectConnectionPool` with one
shared `ConnectConnection` per database number and a list of private ones. The
threads share the `ServerPool` (the servers, their groups and, for a cluster, the
table of slots), the `Server` objects with their failure marks, and the `Logger`.

| Component | State | Operations | What makes it correct |
|---|---|---|---|
| Event loop and post lists (`Handler.cpp`) | two lists of connections with pending events | `run`, `handleEvent`, `postEvent`, `addPostEvent`, the three checks | every connection with something to write is written; `postEvent` returns |
| Client pipeline (`AcceptConnection.cpp`) | the requests in the order they were read, each with its answer once it has one | `readEvent`/`parse`, `handleRequest`, `fill`, `write`, `close` | each client gets the answers to its requests, once, in order |
| Server pipeline (`ConnectConnection.cpp`) | requests to send, requests that await a response | `send`, `fill`, `write`, `handleResponse`, `close` | a response goes to the request it is for |
| Shared connections (`ConnectConnectionPool.cpp`) | the shared connection of a server; pending inner requests | `getShareConnection`, `init`, `check` | set up before it is used; reopened after a failure |
| Private connections (same file; `Transaction.h`, `Subscribe.h`) | a list of idle connections; the connection a client holds; the counters of WATCH, MULTI, SUBSCRIBE; whether the client is blocked | `getPrivateConnection`, `putPrivateConnection`, `postHandleRequest`, the end of `handleResponse` | one client at a time; returned without a transaction or subscription left on it |
| Redirection (`Handler::redirect`) | a count per request | MOVED, ASK | a request is in one queue; ASKING stays beside it; nothing is dropped |
| Server health (`Server.cpp`) | failure mark and count, time of the next attempt | `incrFail`, `activate`, PONG | a failed server is tried again and comes back |
| Multi-key commands (`Request.cpp`, `RequestParser.cpp`) | leader, followers, how many are done | splitting, `setResponse`, `isDone` | the merged response is that of the undivided command |
| Parsers (`RequestParser.cpp`, `ResponseParser.cpp`) | parser state between two reads | `parse` | the same requests, however the bytes are cut |
| Routing (`ServerGroup.cpp`, `DC.cpp`, the pools) | none, reads the shared state | `getReadServer`, `getServer` | a live server of the right group, in the configured proportion |
| Topology (`ServerPool.h`, `ClusterServerPool.cpp`, `StandaloneServerPool.cpp`) | slots, servers, groups; the time of the last refresh | `refresh`, `refreshRequest`, `handleResponse` | one handler refreshes at a time; a slot is never sent to a server that no view gave it; the pool follows the servers |
| The list of a group (`ServerGroup.cpp`) | a vector that one thread changes and all read | `add`, `remove`, `getMaster`, `getServer` | a reader finds only members, and the master that stays |
| SCAN (`Handler.cpp`) | the number of the group in the cursor | `handleRequest`, `handleResponse` | a scan that ends has seen every group |
| Logger (`Logger.cpp`) | queue of full units, list of free ones | `log`, `run`, `stop` | no unit in two hands, no thread left waiting |
| Memory (`Alloc.h`) | the memory of all threads, the objects each keeps | `create`, `destroy`, `CONFIG SET MaxMemory` | the limit holds |
| Clients of a handler (`Handler::addAcceptSocket`, `checkClientTimeout`) | a list by last activity | hand a client to the least loaded handler, close an idle one | a client that is idle for too long is closed |
| Configuration files (`ConfParser.cpp`) | a tree of nodes | `load`, `parse` | the tree says what the files say |

The hard part is in the ordering. A handler is one thread, but everything it
does is cut into short steps at the mercy of the sockets: clients pipeline
requests that go to different servers; many clients share one connection, on
which a response is known only by its position; writes are partial; connections
fail, time out and are reopened with requests in their queues; a cluster sends
requests elsewhere. Several threads meet only in the shared `Server` objects, the
server pool, the assignment of clients, the allocator and the logger - and there
mostly without a lock.
`PROJECT.json` lists the hazards at the lines where they bite.

## Modules

| Module | What it is |
|---|---|
| `Pipeline` | One handler: event loop, clients, shared connections, redirections, timeouts. One action per handler of the code. |
| `ProxyService` | The abstract specification: what a client of predixy may rely on. |
| `PipelineProofs`, `PipelineQueueProofs` | Theorems about `Pipeline` for every value of its constants: connections and answers, what is queued, what a client sees. |
| `Session` | One handler and the private connections of a server: transactions, subscriptions, blocking commands. |
| `SessionProofs`, `PrivateProofs`, `LeftFold` | Theorems about `Session`: of whatever fails, and of private connections while they do not; and the induction over folds that they need. |
| `Turn` | A turn that handlers race for by swapping a time stamp. |
| `ServerHealth` | One server and several handlers: failure marks, the turn to try again, PONG. |
| `ClusterPool` | The refresh of a cluster: servers, groups and slots by answers to CLUSTER NODES that come late, lost or cut. |
| `StandalonePool` | The refresh of groups that sentinels watch, by three kinds of answers that come in any order. |
| `ServerList` | The order in which a group keeps its servers, used by both pools and by `ServerGroup`. |
| `ServerGroup` | The list of a group, stored element by element while another thread reads it without a lock. |
| `LogQueue` | The logger's units, its mutex and its one condition variable. |
| `Memory` | The count of the memory that all threads have, and what each thread keeps for itself. |
| `Clients` | Which handler has which client, and the closing of idle ones. |
| `Chunks`, `Segments` | A stream of bytes that is parsed buffer by buffer, and the pieces cut out of it. |
| `RequestParser`, `ResponseParser`, `ClusterNodesParser`, `AddrParser` | The four byte parsers, state by state. |
| `Answers` | How the answers to the parts of split commands are merged and written, by writes that end anywhere. |
| `Scan` | SCAN from group to group. |
| `ReadServer` | The choice of a server to read from. |
| `ConfParser` | The configuration files. |
| `PoolProofs`, `ThreadProofs`, `ScanProofs` | Theorems about `ServerHealth`, `ClusterPool`, `StandalonePool` and `ServerGroup`; `LogQueue` and `Memory`; and `Scan`. |
| `MCPipeline`, `MCSession`, `MCThreads`, `MCAlgorithms` | Values for TLC; the last two also put the components that have no state in common into one run. |

### Pipeline and the code

`pc` says where `Handler::run` is. In `"wait"` it is inside `epoll_wait`'s loop,
and each step is one event of one socket: a client that is accepted
(`Accept`), one request parsed and handled (`ReadDirect`, `ReadForward`,
`ReadInvalid`, `ReadIgnored`), an error (`ClientError`, `ServerError`), a socket that
is writable (`ClientWritable`, `ServerWritable`), one response parsed and handled
(`ReadReply`, `ReadLateReply`, `ReadInnerReply`, `ReadRedirection`). An event that
carries several requests or responses is several steps in a row: nothing else of
the thread's state changes between them, so the model only adds interleavings.
`EndWait` leaves the loop for `postEvent` (`PostConnect`, `CloseRequest`,
`CloseSocket`, `TurnToAccept`, `PostAccept`, `EndPost`), which writes and closes
connections; then come `checkClientTimeout` (`IdleClient`, `NoIdleClient`),
`checkConnectionPool` (`CheckPool`, `EndCheckPool`) and `checkServerTimeout`
(`TimedOut`, `EndServerTimeout`), two of which call `postEvent` again: `after`
remembers where it returns to.

`cc` and `sc` hold the fields of the connections. `requests`, `send`, `sent`,
`post`, `postA` and `postS` are the lists of the code. `delivered`, `res` and
`redirects` are fields of the requests. `writable` stands for the
registration with epoll for write events, which `postEvent` adds and removes; the
registration for read events never changes. `fail` and `failures` are fields of
`Server`. The variables `wire` (what a server was sent and has not answered) and
`out` (what a client was written) are not in the code: they are the other ends of
the sockets.

What is abstracted:

- A request is the pair of its client and its number, its answer a record that
  names the request it was made for. So a wrong match shows as an answer
  whose `of` is another request.
- A partial write is a number of whole requests (`k` in `PostConnect` and
  `PostAccept`): a request of which some bytes were written is still in the
  list, as in the code.
- Time passes without being counted: any timeout may have passed at any time.
- AUTH, READONLY and SELECT have the same effect and are one request, `Setup`.
- Responses to requests that were closed are lost with the socket (`wire` is
  emptied).
- Counters kept for statistics, latencies and the log are left out, and so is the
  memory limit: exceptions are errors of a connection (`ClientError`,
  `ServerError`).

Not in this module: commands on private connections (`Session`), commands split
by key (`RequestParser`, `Answers`), SCAN (`Scan`), the inner requests of a
topology refresh (`ClusterPool`, `StandalonePool`), and SCRIPT LOAD.

Operators with names such as `FlushedTwice` or `SendFirst` stand before the one they
differ from by a mistake. Nothing in the specification uses them: each run was
also checked with one of them in the place of the original, to see that the
property notices.

### ProxyService

For each client: requests are asked one after another, each is answered at
most once with an answer of its own, answers are shown in the order of the
requests and only after they exist, and nothing is shown any more once the
client is closed. `Pipeline!ServiceSpec` instantiates it with the variables of the
clients; the run `servers` checks that every step of the handler is a step of
the service or a stutter, and `PipelineQueueProofs` proves it.

### Session and the code

A command such as BLPOP, WATCH, MULTI or SUBSCRIBE needs a connection for its
client alone. `Session` takes what `Pipeline` shows of every connection as given
(a connection that is opened can be written at once, a write is never partial,
a response is for the front of `sent`) and models what a client keeps on a server:

| Model | Code |
|---|---|
| `cc[c].conn`, `sc[k].acc` | `mConnectConnection`, `mAcceptConnection` |
| `pendWatch`, `watch`, `pendMulti`, `multi`, `pendSub`, `sub` | the counters of `Transaction` and `Subscribe` |
| `block` | `mBlockRequest` |
| `idle`, `postS` with `sc[k].next` | `mPrivateConns[0]` and `mPostConnectConns`: lists that run through the connections themselves, both by the link of `ListNode` |
| `session[k]` | not in the code: what the server keeps for the connection |

A step is one event: a request that is read (`Read`), a response (`ReadReply`), a
published message (`ReadMessage`), an error, or the turn of one connection in
`postEvent` (`PostConnect`, `PostAccept`). In one step the functions of `Handler` call
each other: closing a connection answers its requests, which may return it to the
pool; writing a client delivers requests that were held back, which may take
connections and be answered at once. So the functions are operators from a record
of the handler's state to the state they leave (`HandleRequest`,
`HandleResponse`, `Close`, ...), composed in the order of the calls.

What is abstracted, beyond `Pipeline`'s list: one server, one database, no
cluster; the three blocking commands are "blpop", PSUBSCRIBE is "subscribe", and
"get" stands for all commands that share connections; UNSUBSCRIBE names one
channel. `Served` is the part of Redis that matters here. `Server::fail()` is
shared by all handlers and may be found either way at each call. `Private`
bounds the connections that are made, `MaxReq` the requests of all clients together,
`MaxMsg` the messages of each client.

### What the threads share

These modules have one action for each step that other threads can see, and
nothing of the pipelines.

- `Turn`: a handler reads the stamp, sees that the period is over (`CanRead`,
  `Reads`), and swaps it for a new one, which succeeds if the stamp is still the
  one it read (`Wins`, `Swapped`, `Loses`). `ServerHealth` uses it for
  `Server::activate`, `ClusterPool` for `ServerPool::refresh`. Time is reduced to
  whether the period is over.
- `ServerHealth`: `mFail` and `mFailureCnt` are changed by every handler's
  `incrFail`, the shared connection of database 0 is per handler, and `check` tries it
  when the handler wins the turn. `Pong` is the answer to the PING of a new
  connection.
- `ClusterPool`: `HandleResponse` takes the pool's mutex, or drops the answer if
  it is locked; then `ParseNode` applies one line after another, `SettleServer`
  and `EndUpdate` what follows the lines, each a step of its own because the other
  handlers route by the same tables meanwhile. A request under way carries the
  number of the view that its answer will show, so answers are late by being of an
  old view; `ParseError` cuts one short.
- `StandalonePool`: the same for `handleSentinels`, `handleGetMaster` and
  `handleSlaves`, each applied whole under the lock.
- `ServerGroup`: `add` and `remove` are two steps each, the element and then the
  length of the vector; the reader reads the length once and one element a step.
  What is behind the length stays what it was.
- `LogQueue`: what happens under the mutex is one step; `wait` and `notify_one`
  are modelled with one set of waiting threads, of which any one is woken.
- `Memory`: raising the count, comparing it, and lowering it again are three steps.
- `Clients`: a list in the order of the last activity; `CheckClientTimeout` looks
  at it from its head and ends at the first that is not idle for long enough.

### What a thread computes

`Chunks` holds a stream of bytes of which any number may have arrived. The
parsers read what has arrived to its end, in the states of the code, and go on at
the next byte when more comes; so a buffer may end at every position, in every
combination. A byte is one value ("CR", "LF", a letter, a digit). `meant` is what
the sender wrote into the stream, and the properties compare what was found with
it: nothing is compared with a second parser. `Answers` takes the answers to the parts
of split commands in any order, merges them as `Request::setResponse` does, and
lets each `writev` end within any piece; `written` is what the client has. `Scan` is
one client that goes on with the cursor it was given. `ReadServer` reads once
from each group of servers, for all values that are drawn by lot. `ConfParser` reads
files line by line, with one character for a word.

## Runs

| Run | Instance | Checks |
|---|---|---|
| `servers` | 1 client, 2 servers, 2 requests, AUTH and PING on a new connection, client and server timeouts | `TypeOK`, `NotLost`, `NoStall`, refinement of `ProxyService` |
| `shared` | 2 clients, 1 server, 2 requests each | `InOrder`, `Matched` |
| `cluster` | 1 client, 2 nodes, MOVED and ASK, one redirection | `QueuedOnce`, `HandshakeFirst`, `AskingAdjacent` |
| `live` | 1 client, 1 server, 2 requests, two failures mark the server, under fairness | `Answered`, `LoopReturns` |
| `redirect_dropped` | 1 client, 2 nodes, two redirections, under fairness | `Answered` is violated |
| `session` | 2 clients, one with transactions, one with BLPOP and subscriptions; 2 private connections, 4 requests; connections do not fail, BLPOP may be refused by the server and EXEC by the proxy | `Exclusive`, `Isolated`, `InStep` |
| `session_failing` | 1 client with all commands, 2 private connections, 3 requests, 1 message; connections fail, the server and the proxy refuse commands | `TypeOK`, `BlockedByRequest`, `NotLost` |
| `session_double_put` | 3 clients with BLPOP, 2 private connections, 3 requests; connections fail | `OneClient` is violated |
| `session_held_back` | 1 client with GET and BLPOP, 3 requests; nothing fails | `HeldBackDelivered` is violated |
| `threads` | what the threads share, see below; under fairness | log: `UnitsConserved`, `SinkNotAsleep`, `LogsWritten`; health: `TriedOnce`, `Revived`; group: `NoStranger`, `FindsMaster`; cluster: `RefreshedOnce`, `NeverElsewhere`, `ClusterSettled`, `Converges`; standalone: `MembersAgree`, `MasterFollowed`; memory: `MemoryLimited`; clients: `IdleClosed` |
| `algorithms` | what a thread computes, see below | `RequestsDecoded`, `ResponsesDecoded`, `NodesDecoded`, `AddressesDecoded`, `AnswersWritten`, `ScanComplete`, `ReadsBest`, `ConfLoaded` |
| `transaction_split` | 1 client that sends MULTI, MGET of two keys, EXEC | `WholeInTransaction` is violated |

Why these bounds are enough for what is asked: a wrong match or a wrong order
needs two requests that are answered out of step, which takes two requests of
one client on two servers (`servers`) or of two clients on one (`shared`); an
early or late ASKING needs a connection with its set-up still queued and one
redirected request (`cluster`). A third request or server adds no new kind of
step: the theorems below hold for any number of them. `MaxReq` is the only bound
the module imposes on its own; `FailureLimit` and `MaxRedirect` are parameters of
the program, made small.

For a session, what is left behind for the next client takes one client's
commands up to the one that returns the connection (two or three: WATCH, MULTI,
EXEC) and one request of the other client (`session`, four requests in all, in every
interleaving); a counter that goes wrong takes a refused command and one that
relies on it (`session_failing`). `session_failing` does not check deadlock, as the
program can crash there (see below).

`threads` and `algorithms` join components that have no state in common: a behaviour
is one of the component that `focus` or `reading` names, while the others rest, so
that their states add up and are not multiplied (136,237 and 104,632 distinct
states). They do not check deadlock: a component ends when its bounds are used up,
and a stream when it is parsed. In `threads`:

- Two handlers are the smallest number that race for a turn, a log unit or the
  limit of the memory; the theorems hold for any number. The log has two units, so that
  both may be under way and a third log has to wait or is missed.
- A failed server takes two failures (`ServerFailureLimit`), so that a failure of one
  handler and one of the other may meet.
- The group has three servers, one a master, and a list of up to three. The reader
  looks any number of times; `FindsMaster` is about one change during a look, as two can
  move the master behind the reader (TLC finds that, and the code does nothing against it).
- The cluster has three addresses and three views: a failover, and a takeover of slots
  that are then listed in two ranges. Up to two requests are under way when an
  interval ends (`MaxAsked`), so an answer may be older than one that was applied, and one
  answer is cut (`MaxCuts`). `Answering` names the server that answers.
- Two groups are watched, with four addresses and two views: both groups fail
  over, and one server changes its group. One request may be late by a whole
  interval (`MaxLate`), one answer may be lost or cut (`MaxLost`).
- The memory has two classes of objects of the sizes 2 and 3, the limits 4 and 7, one
  unused object kept for each class and two in use at most.
- Three clients on two handlers, with a timeout of two ticks.

In `algorithms`:

- Every stream of bytes is parsed with every position as a possible end of a
  buffer. The streams hold each kind of command the parser tells apart (one key, the
  three ways to split, keys at the second or third place, inline with quotes, too few
  arguments, an unknown command, garbage), each type of answer and arrays in arrays,
  views of a cluster with ranges, single slots, migrating and importing slots and an
  address that is too long, and sentinels' answers with other keys around ip and
  port; `MCAlgorithms` lists them.
- `Answers` has buffers of three bytes and writes of at most two pieces, so that a
  part spans buffers and an answer spans writes.
- A scan goes over up to three groups (two bits for the group in a cursor), each with
  any choice of the pages listed and with or without a master.
- A read is from any three of twelve servers that differ in what the choice looks
  at, with four data centres of which one has no priority and one no weight.
- A configuration has four lines out of eight kinds, and an included file of three
  kinds; a scope may be two deep (`MaxNodeDepth`).

### What was found

`redirect_dropped`: `Handler::redirect` takes the connection that
`getConnectConnection` returns and passes it to `handleRequest(req, s)`, which
returns at once when `s` is no longer good - for instance because an error of it
was seen earlier in the same round of events. The request is then in no queue, and
`redirect` returns true, so that `handleResponse` does not answer it either. The
client waits for ever, and so does everything it sends later; `ServerTimeout`
cannot help, as it looks at queued requests only.

`session_double_put`: when a private connection with a request under way fails,
`postConnectConnectionEvent` calls `close`, which answers the request; answering
BLPOP returns the connection to the pool (end of `handleResponse`), and then
`postConnectConnectionEvent` returns it again. Two clients are then given the same
connection. A connection that fails while it is idle is put there twice too.

The same lists explain why `session_failing` does not check deadlock.
`mPrivateConns` and `mPostConnectConns` are both lists through the one link of
`ListNode`. When the server closes an idle private connection its error puts it into
`mPostConnectConns`, while it is still in `mPrivateConns`. If, in the same round of
events, another connection is posted behind it and a client asks for a private
connection, `pop_front` of the pool clears the link that the other list runs
through: `postConnectConnectionEvent` takes a null pointer, and the pool begins with
a connection that was never put there, the shared one in TLC's trace. (To see the
trace, drop `CHECK_DEADLOCK FALSE` from `SessionFailing.cfg`.) `Exclusive` states
that this does not happen; it holds as long as connections do not fail and under the
other conditions of `PrivateProofs` (below).

`session_held_back`: a blocked client's requests are held back, and delivered by
`fill` when answers are written. A second BLPOP that is read after the response of
the first and before its answer is written is delivered at once, ahead of what
was held back, and blocks the client again: `fill` then delivers nothing, and the
response of the second BLPOP does not cause a write because the oldest request has
no answer. The client gets nothing more.

`transaction_split`: `AcceptConnection::parse` decides once for all the bytes it was
given whether commands of several keys are split, and a client in a transaction is
to have none split. With MULTI and MGET in one buffer it is not yet in one when
that is decided: the MGET is split after all, its parts are queued in the
transaction one by one, and EXEC answers with an element for each.

Three more disagreements in the sessions that TLC shows are not runs of their own:

- A SUBSCRIBE that the proxy refuses inside a transaction, and a WATCH that
  it denies, take one from a counter that was never increased for them. With
  another one pending or acknowledged, the connection goes back to the pool
  with a subscription or watched keys on it. So `Isolated` is checked, and proved,
  with transactions and subscriptions used by different clients, none of which is
  denied a WATCH.
- A request that does not parse, behind requests that are held back, is answered at
  once and then delivered with them; it has no body, and its answer is replaced
  by none.
- `getPrivateConnection` checks for a failed server after it has taken a connection
  from the pool or opened it, and does not put it back.

And these in the other components, where a run's inputs or property leave out the
case, because the code does not do there what its documentation or its purpose says:

- Read weights (`ServerGroup.cpp:219`): `lower_bound` gives a draw that equals a
  cumulated weight to the centre before. Weights of 5 and 2 are read from 6 to 1 and not
  5 to 2 as `doc/config_CN.md:402` says, and of two centres with weight 1 the second is
  never read from. `ReadsBest` is about who may be read from, not how often.
- Configuration values (`ConfParser.cpp:296`): the blanks at the end of a value are
  counted by a loop that does not stop at the first other character. `bj 20 5`, as in
  `conf/dc.conf`, becomes `20 ` and the weight is lost. The same loop, and a
  backslash before an ordinary character of a quoted value, are why such values
  are not among the inputs of `ConfLoaded`.
- A null array inside an array (`*-1`, the answer of a BLPOP in EXEC) is an error of the
  response parser (`ResponseParser.cpp:180`) and closes the connection.
- With `AllowMissLog false` (`conf/predixy.conf:64`) handlers wait on the same condition variable as the
  writing thread, and a notification may wake the wrong one. `SinkNotAsleep` says how
  far that can go: the writing thread sleeps on queued logs only while a
  handler waits for a unit too, was woken, or is about to queue one.
- A scan whose group loses its master passes the cursor of the group before to the
  next one (`Handler.cpp:660`): `ScanComplete` fixes the masters.
- A failed server whose shared connection for database 0 is open, or was never made,
  is not tried by `check`, which takes the turn for it nevertheless: it may stay failed.
  `Revived` is about closed ones.
- A DEL, EXISTS or UNLINK of which one part fails is answered with the sum of the
  others, as if the failed keys did not exist; an MSET with OK only if all are. `Answers`
  has the merging as it is.
- Slots that a view does not mention keep their group, and a server that no view
  mentions keeps its role and group (`ClusterServerPool.cpp`); a node that is
  configured under another address than it announces is known twice. Nothing marks
  a server of a sentinel's group offline again, and one that is master until the next
  view lists it as a slave is a second master till then (`StandaloneServerPool.cpp`);
  a group that is full sets the server's pointer without the server in its list. The
  histories in `MCThreads` leave these out where a property is about the end result.

### Fairness

`FairSpec` assumes that the thread keeps running (weak fairness of its own
steps), that the kernel ends each connection attempt, and that a connection that
waits long enough is found by `checkServerTimeout`. The last two are strong
fairness, because the thread passes the place where they can happen once per
round. Nothing is assumed of clients, of servers, or of the network: a server
that never answers is part of `live`. That is why `Answered` needs
`ServerTimeout`, which is 0 (off) by default: without it a request may wait for
ever.

`threads` uses the fairness of each component, written next to its actions
(`LogFairness`, `HealthFairness`, ...) and restated for a behaviour in focus:

- Log: the writing thread runs (`RunStep`), and so does a handler that was woken or
  has a unit to format. Nothing says that a handler logs.
- Health: the clock goes on (`RetryDue`), each handler looks for its turn (`check` is
  called in every round of the loop, which lasts 100 ms at most), and a server that can be
  reached answers PING. `Revived` asks that it can be reached for good.
- Cluster: the clock, each handler's look for its turn, the answer to a request, and the
  handler that applies an answer going on. `Converges` also asks that the view
  does not change any more.
- Standalone: the sentinels are asked again and again, and for each kind of request and
  group some request is answered; which of several, and in which order, is open.
- Clients: time, `checkClientTimeout` of each handler, and the first event of a new
  client (its socket is writable at once).

## Theorems

`PipelineProofs`, from `PipelineAssumption` only: any number of clients, servers
and requests, cluster or not, with or without timeouts.

- `TypeCorrect`: `Spec => []TypeOK`.
- `LinkInvariant`, `MatchedAlways`: `Spec => []Matched`. `Matched` alone is not
  inductive: reopening a connection needs that a closed one has nothing queued
  and nothing on the wire. `Linked` says that and, for an open connection, that
  `sent` equals `wire`, except for the one that is being closed.
- `OrderInvariant`, `InOrderAlways`: `Spec => []InOrder`. The invariant adds that
  the answer stored with a request is its own (`OwnAnswers`, which needs
  `Matched` to know that the response of `ReadReply` is the front's) and that what a
  client was written and what waits for it are together what was read, in one
  gapless run (`Pipelined`).

The proofs go through the actions one by one; `SocketEvent`, `PostStep` and
`CheckStep` have a lemma each, and lemmas on `Send`, `Flushed`, `Opened` and
`SetResponse` say what these do to a connection.

`PipelineQueueProofs`, from `PipelineAssumption` only. They rest on `StepKinds`:
whatever the handler does, either it is about a client alone (`ClientOnly`), or it changes the
queues (`sent` followed by `send` of each connection) in one of five ways. It leaves them,
but for a connection that is opened and gets its set-up (`Quiet`); it reads a request that goes no further (`AsksOnly`) or is
queued at the end (`Forwards`); it takes the oldest request of a connection away, to
answer or drop it (`Takes`), or to queue it elsewhere (`Redirects`). The proofs of what
the queues hold go by these cases and not by the actions.

- `QueueInvariant`, `QueuedOnceAlways`: `Spec => []QueuedOnce`. That a request is
  queued once is kept by `Forwards` only if it was not queued at all before, so
  `QueueInv` adds that only requests that were read are queued or answered
  (`Placed`), and that a queued one has no answer (`Undone`).
- `PlacesInvariant`, `HandshakeFirstAlways`, `AskingAdjacentAlways`: the two are inductive
  by `StepKinds`, together with `LinkInv`. A write that ends between ASKING and its
  request moves one of them from `send` to `sent` and leaves the queue as it is.
- `KeptInvariant`, `KeptUnlessRedirectedAlways`, `NotLostAlways`: a request that was passed
  on and was never redirected is queued until it is answered (`KeptInv`), and by
  `LinkInvariant` on an open connection. `NotLostAlways` has the hypothesis `~Cluster`:
  only clusters redirect, and in a cluster `Handler::redirect` may drop a request, as the run
  `redirect_dropped` shows. `KeptUnlessRedirectedAlways` is what remains there.

The same module, on what a client sees and on wakeups:

- `HandlerServes`: `Spec => ServiceSpec`. Of the five ways above, reading a request is
  `Ask`, which may answer it at once; `Takes` with an answer is `Settle`; the others are not
  seen. Of the steps of a client alone, `PostAccept` and those that close it are `Show`. The
  refinement mapping is the one of `Pipeline!Service`: the variables of the clients. It
  needs that a request that is answered was waiting (`QueueInv`), that what is written is
  the next of the answers (`OrderInv`), and that a closed client has no requests (`ClosedEmpty`).
- `AwakeInvariant`, `NoStallAlways`: `Spec => []NoStall`. `NoStall` is about
  connections in the state `"Normal"`. `ServersAwake` adds that one that is still being
  opened is waited for with epoll, that one with an error to be closed is not
  `"Normal"`, and that every connection with events is in the list; `ClientsAwake` says the same of clients.

`SessionProofs`, from `SessionAssumption` only: any clients and private connections,
any commands, and whatever fails, is refused or denied.

- `SessionInvariant`, `TypeOKAlways`, `NotLostAlways`, `BlockedByRequestAlways`. The
  operations of `Session` are functions from a state of the handler to the one they leave,
  and call each other, so the invariant `HandlerInv(h, R, K)` is about such a state
  `h` in the middle of a step: `R` are the requests that need no connection for the moment, as
  they are being answered or placed, and `K` the connections that count as one. Between
  the steps `R` is empty and `K` is all of them. It says that the
  requests of a client are its own, distinct, and have been read (`Own`, `Unread`), that what is
  on a connection was delivered (`Delivered`), that a good connection is open
  (`GoodOpen`), that a blocked client waits for a request that blocks (`BlockedOK`), and
  that what is waited for is on an open connection (`Kept`). Each operation has a
  lemma. Most of them are within a `Frame` that changes lists, events, counters and who is
  attached to whom, which keeps all of it; the others answer a request, put it on a
  connection, open or close one, or add and remove requests. The lists through the links
  of the connections may be in any disorder, and none of this depends on them.
- `LeftFold!FoldKeeps`: what each step of a fold keeps holds of its result. Closing a
  connection, writing one and delivering held-back requests are folds over sequences. The
  induction comes from the minimum principle of well-founded sets, and the operators are
  constants of the module, which `SessionProofs` instantiates.

`PoolProofs`, for any set of handlers, from `StandaloneAssumption` and `GroupAssumption`:

- `TriedOnceAlways`, `RefreshedOnceAlways`: at most one handler has the turn in a
  period. That `won` is at most 1 is not inductive: a handler that read the stamp
  earlier could still win. `OneTurn` adds that once the turn is had nobody holds a
  stamp that is still current, and while it can be had nobody has had it. The lemmas
  are about the operations of `Turn`, so both components use them, and a third
  turn would.
- `MembersAgreeAlways`: for any groups, any history of views and any mix of late, lost
  and cut answers, a server of a pool that sentinels watch is in the list of the group it
  points to and in no other. There are two hypotheses, about what the code relies on and does not
  check: `ConfiguredOnce` (no server is configured twice) and `RoomForAll` (no more servers
  are ever named for a group than its list has room for); without the second the property
  is false (see above). `PoolOK` is about the state of the pool between the slaves of one answer and adds
  that no list has a server twice, without which a removal would leave it in the list.
  The slaves are placed by a fold, so this uses `LeftFold!FoldKeeps`, too.
- `NoStrangerAlways`, `FindsMasterAlways`: for any servers, any masters
  among them and any capacity of a list. `GroupInv` adds the state of the list in the
  middle of a change (`ListOK`: the members are distinct, and a removal may leave one twice
  until the list shrinks), that all in the list has been seen in it since the
  reader started (`Seen`), and that a master that stays is still ahead of the reader until
  the second change (`Ahead`).

`PrivateProofs`, from `SessionAssumption` (there are finitely many clients and connections)
and under the hypothesis `Orderly`, for any clients, connections, requests and commands:

- `ExclusiveAlways`, `IsolatedAlways`, `InStepAlways`: `Orderly => (Spec => []Exclusive)`, and so
  on. `Orderly` says that connections do not fail; that no client uses both
  subscriptions and transactions; that the server does not refuse WATCH, MULTI, SUBSCRIBE,
  EXEC and DISCARD; and that the proxy does not deny WATCH, MULTI and SUBSCRIBE. Everything else may
  be refused or denied, clients may fail and go at any time, and the constants of
  `session` satisfy it. None of the conditions on refusals
  can be dropped: add to `SessionShared.cfg` one of the commands named, to `Refusable` or to
  `Deniable`, and TLC finds `Exclusive` violated (WATCH, MULTI or SUBSCRIBE refused) or
  `Isolated` (the others). A refused WATCH, for one, takes back what it had counted;
  the client has nothing open then, and the connection is put back while later
  commands of the same client are queued there, whose answers put it back again. When
  connections fail, one is put back twice as well (`session_double_put`), and a
  SUBSCRIBE inside a transaction may leave a subscription for the next client (see above).
- `SuitsAlways` is the inductive invariant, together with that of `SessionProofs`. It
  has two parts. `Core` is about clients and what is queued: a request is on one
  connection; a private one has only requests of the client it is attached to
  (`Pending`, `Attached`); a request that blocks its client is the last there (`Blocked`), as what
  follows it is held back; and the counters of a client are those of the session at the
  server, plus what is still queued on the connection, WATCH, MULTI and SUBSCRIBE each counted
  by itself (`Counts`, with cardinalities of sets of requests). So a client has nothing
  open only when no such request is queued any more and the session has
  ended; and what keeps the connection until then is the request that blocks
  (`Attending`). Together they say that a connection is put back by the answer to
  its last request, clean and once. `InLists` is about the two lists and the one link: each runs
  through a sequence of connections without repetition, and they have none in common.
- `Core` is stated of a function `q` from connections to their requests and not of `sent`
  and `send`. `ConnectConnection::fill` takes requests out of `send` and puts them into
  `sent` later, and answers some of them in between; meanwhile `q` is the one and
  what is left of the other (`Writing`). What an operation does to the queues is put into
  one relation each: a request `Joins` or `Leaves`, a connection `Reopens`, a client
  `Closes`, or nothing of this (`Like`). For each one there is a lemma that the
  invariant is kept, and for each handler of the code one that it is one of these.

`ThreadProofs`, on what threads share. From `LogAssumption`, for any handlers and any number
of units:

- `UnitsConservedAlways`, `SinkNotAsleepAlways`: their invariant `LogInv` adds the
  types, that a handler has a unit exactly while it formats and that finitely many do
  (`Holding`; cardinalities are those of finite sets), and that the writing thread
  has a batch only while it writes (`Batched`). The lemmas before the steps say what
  taking from and adding to a sequence does to the set of the units in it.

The same module, from `MemoryAssumption`, for any threads, classes, sizes and limits:

- `MemoryLimitedAlways`: `MemorySpec => []MemoryLimited`. The count is the sum over all classes
  of what is in use and what each thread keeps, and of what is being taken; the limit holds as a
  thread creates an object only when the count, which has its own and all others' raises in
  it, is within the limit. `MemoryInv` adds the types and that no limit is above the
  highest (`HighestIs`). Sums over a finite set are defined by recursion on sets: `SumIs`
  and `SumChanges`, what one value that changes does to the sum, are proved by induction
  on the size of the set, again from the minimum principle.

`ScanProofs`, for any groups, pages of their masters and `ServGroupBits`:

- `ScanCompleteAlways`: `ScanInit(ps, masters) /\ [][ScanNext]_scanVars => []ScanComplete`
  if `WellFormed(ps, masters)`: the groups are numbered from 0 and their numbers fit into
  `ServGroupBits` bits (a cluster's pool makes no more groups than that, the other one does
  not check it), and a master gives its pages different cursors, the first 0. `ScanInv` says which page the
  cursor stands before and that exactly the pages before it were seen (`PagesBefore`); a
  group without a master is passed over only at its first page. `CursorParts` is the
  arithmetic of the cursor: what is put together can be taken apart.

Only model-checked:

- All liveness properties, as TLAPS does not prove them under fairness.
- `ClusterPool`'s `NeverElsewhere` and `ClusterSettled`, which depend on what the histories
  of views leave out (see above): they are not true of every history.
- `StandalonePool`'s pool when a list gets full, and `Clients`, whose one property is liveness.
- `Answers` and the parsers: the invariants compare the state with what a reference
  definition makes of the whole input.
- `Segments`, `ReadServer`, `ConfParser` and, through them, `algorithms`: recursive
  operators, and what a parser computes for every input is induction over data.

## Plan

Done: the pipelines and sessions of one handler, what threads share, the parsers and
other algorithms, and the theorems above. Left, in this order:

1. A condition on histories under which `NeverElsewhere` of `ClusterPool` can be proved.
2. `Session` with several databases (SELECT), if the state space allows.
3. A composition of `ClusterPool` with `Pipeline`, in which a redirection or a
   refresh changes where the next request goes.

## Not modelled

- Authority: a look-up of the password and a prefix match, without state of its own.
- Statistics and latency monitors: counters that nothing else reads.
- `Conf.cpp`, which turns the tree of `ConfParser` into parameters before a thread
  starts; the parameters that matter are constants of the modules.
- Hash functions and the two distributions: they compute a number and keep nothing.
- `LogFileSink` (rotation of files), `kqueue` and `poll` (alternatives to epoll with its
  interface), socket wrappers, strings, timers and identifiers.
- `SentinelServerPool.cpp` and its header: not in the `Makefile`, their work is done by
  `StandaloneServerPool`.
- Reference counts: an object of the modules lives as long as a variable names it.
- In the parsers: the number of invalid bytes that are tolerated, and command names
  as long as the longest allowed. Two of their states are not left as a reader
  would expect, and no input enters them: an empty line before a multibulk
  request, and a quoted inline argument followed by another.
