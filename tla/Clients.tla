------------------------------- MODULE Clients -------------------------------
(***************************************************************************)
(* The clients of the handlers: a new one goes to the handler with the     *)
(* fewest, which lists it when its first event comes, and one that is idle *)
(* for too long is closed.  A list is in the order of the last activity;   *)
(* ages stop at the limit.                                                 *)
(***************************************************************************)
EXTENDS Integers, SequencesExt

CONSTANTS
    Handlers,       \* in the order of mProxy->handlers()
    Client,
    ClientTimeout   \* in ticks of the clock

ASSUME ClientsAssumption == Handlers # <<>> /\ ClientTimeout \in Nat \ {0}

VARIABLES
    seat,       \* "outside", "assigned", "listed" or "closed"
    conns,      \* mAcceptConns of each handler
    dst,        \* the handler of each client that is in
    age,        \* the time since lastActiveTime
    busy        \* the clients with requests (not empty())

clientVars == <<seat, conns, dst, age, busy>>

ClientsInit ==
    /\ seat = [c \in Client |-> "outside"]
    /\ conns = [h \in Range(Handlers) |-> <<>>]
    /\ dst = [c \in Client |-> Handlers[1]]
    /\ age = [c \in Client |-> 0]
    /\ busy = {}

\* setAcceptConnectionActiveTime(): the client goes to the end of the list.
Refreshed(list, c) == Append(Remove(list, c), c)

\* addAcceptSocket(): the first of the handlers with the fewest clients.
Accept(h, c) ==
    LET size(k) == Len(conns[Handlers[k]])
        k == Min({i \in DOMAIN Handlers : \A j \in DOMAIN Handlers : size(i) <= size(j)})
        to == Handlers[k]
    IN /\ seat[c] = "outside"
       /\ dst' = [dst EXCEPT ![c] = to]
       /\ IF to = h
          THEN /\ seat' = [seat EXCEPT ![c] = "listed"]
               /\ conns' = [conns EXCEPT ![to] = Append(@, c)]
          ELSE /\ seat' = [seat EXCEPT ![c] = "assigned"]
               /\ UNCHANGED conns
       /\ age' = [age EXCEPT ![c] = 0]
       /\ UNCHANGED busy

\* handleAcceptConnectionEvent() of the other handler.
FirstEvent(c) ==
    /\ seat[c] = "assigned"
    /\ seat' = [seat EXCEPT ![c] = "listed"]
    /\ conns' = [conns EXCEPT ![dst[c]] = Append(@, c)]
    /\ age' = [age EXCEPT ![c] = 0]
    /\ UNCHANGED <<dst, busy>>

\* A request is read, which is no activity yet; its response is.
ReadRequest(c) ==
    /\ seat[c] = "listed" /\ c \notin busy
    /\ busy' = busy \cup {c}
    /\ UNCHANGED <<seat, conns, dst, age>>

WriteResponse(c) ==
    /\ c \in busy
    /\ busy' = busy \ {c}
    /\ conns' = [conns EXCEPT ![dst[c]] = Refreshed(@, c)]
    /\ age' = [age EXCEPT ![c] = 0]
    /\ UNCHANGED <<seat, dst>>

Tick ==
    /\ \E c \in Client : age[c] < ClientTimeout
    /\ age' = [c \in Client |-> Min({age[c] + 1, ClientTimeout})]
    /\ UNCHANGED <<seat, conns, dst, busy>>

\* checkClientTimeout(): the clients at the front that have requests are refreshed,
\* up to the first that has none.  That one is posted to be closed, which refreshes
\* it too, so that nothing is behind it and the loop ends; then it is removed.
CheckStopping(h) ==
    /\ conns[h] # <<>> /\ age[Head(conns[h])] = ClientTimeout /\ Head(conns[h]) \notin busy
    /\ seat' = [seat EXCEPT ![Head(conns[h])] = "closed"]
    /\ conns' = [conns EXCEPT ![h] = Tail(@)]
    /\ UNCHANGED <<dst, age, busy>>

CheckClientTimeout(h) ==
    LET list == conns[h]
        idle == SelectInSeq(list, LAMBDA c : age[c] < ClientTimeout \/ c \notin busy)
        passed == IF idle = 0 THEN list ELSE SubSeq(list, 1, idle - 1)
        closed == IF idle # 0 /\ age[list[idle]] = ClientTimeout THEN {list[idle]} ELSE {}
    IN /\ list # <<>> /\ age[list[1]] = ClientTimeout
       /\ seat' = [c \in Client |-> IF c \in closed THEN "closed" ELSE seat[c]]
       /\ conns' = [conns EXCEPT ![h] =
             SelectSeq(SubSeq(list, Len(passed) + 1, Len(list)), LAMBDA c : c \notin closed)
                \o passed]
       /\ age' = [c \in Client |-> IF Contains(passed, c) THEN 0 ELSE age[c]]
       /\ UNCHANGED <<dst, busy>>

ClientsNext ==
    \/ \E h \in Range(Handlers), c \in Client : Accept(h, c)
    \/ \E c \in Client : FirstEvent(c) \/ ReadRequest(c) \/ WriteResponse(c)
    \/ Tick
    \/ \E h \in Range(Handlers) : CheckClientTimeout(h)

\* Time goes on, the handlers run their loops, and a new connection is writable.
ClientsFairness ==
    /\ WF_clientVars(Tick)
    /\ \A h \in Range(Handlers) : WF_clientVars(CheckClientTimeout(h))
    /\ \A c \in Client : WF_clientVars(FirstEvent(c))

ClientsSpec == ClientsInit /\ [][ClientsNext]_clientVars /\ ClientsFairness
-----------------------------------------------------------------------------
\* A client does not stay for ever without a request, whatever the others do: not
\* behind clients with requests that are never answered, and not because each
\* check closes a single one.
IdleClosed == \A c \in Client : []<>(seat[c] \notin {"assigned", "listed"} \/ c \in busy)
=============================================================================
