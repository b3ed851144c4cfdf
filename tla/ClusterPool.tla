----------------------------- MODULE ClusterPool -----------------------------
(***************************************************************************)
(* The pool of a redis cluster.  The handlers race for the turn to refresh *)
(* it: the one that has it sends CLUSTER NODES to some node, and applies   *)
(* the answer, node by node and then server by server, while all others    *)
(* read servers, groups and slots without a lock.  An answer that comes    *)
(* while another is applied is dropped.                                    *)
(*                                                                         *)
(* History is what the cluster goes through: each view is the sequence of  *)
(* nodes that ClusterNodesParser makes of an answer, one for each range of *)
(* slots of a node.  An answer may be older than another that was applied  *)
(* before it, and may be cut short by a parse error.                       *)
(***************************************************************************)
EXTENDS Turn, ServerList, FiniteSets

CONSTANTS
    Addr,           \* addresses of servers
    NodeAt,         \* the id of the node behind an address
    Configured,     \* the addresses of the configuration, in order
    History,        \* the views: sequences of nodes with the fields addr, id,
                    \* role, master, bad (fail or handshake) and slots
    WithCport,      \* whether nodes announce ip:port@cport
    MaxServNum, MaxGroupNum,
    Answering,      \* bound: the servers that answer
    MaxAsked,       \* bound: the requests under way after an interval
    MaxCuts,        \* bound: how many answers are cut short
    Nothing         \* a null pointer or an empty string

ASSUME ClusterAssumption ==
    /\ NodeAt \in [Addr -> STRING]
    /\ Configured # <<>> /\ Range(Configured) \subseteq Addr
    /\ WithCport \in BOOLEAN
    /\ Nothing \notin Addr

Slot == UNION {n.slots : n \in UNION {Range(v) : v \in Range(History)}}
Id == {NodeAt[a] : a \in Addr}

VARIABLES
    pool,       \* mServPool
    serv,       \* role, name, masterName and group of each server
    groups,     \* mServs of each group, by its name; Nothing if there is none
    slots,      \* mSlots
    turn,       \* mLastRefreshTime
    asked,      \* the requests of each handler, as the view when it was sent
    update,     \* the answer that is applied
    now,        \* the view that is true of the cluster
    cuts,
    complete,   \* the last view that was applied to its end, 0 at first
    begun       \* it, and those that were begun since

clusterVars == <<pool, serv, groups, slots, turn, asked, update, now, cuts,
                 complete, begun>>

NoUpdate == [view |-> 0]

ClusterInit ==
    /\ pool = Configured
    /\ serv = [a \in Addr |-> [role |-> "unknown", name |-> Nothing,
                               master |-> Nothing, group |-> Nothing]]
    /\ groups = [g \in Id |-> Nothing]
    /\ slots = [s \in Slot |-> Nothing]
    /\ turn = NewTurn
    /\ asked = [h \in Handler |-> {}]
    /\ update = NoUpdate
    /\ now = 1 /\ cuts = 0 /\ complete = 0 /\ begun = {}

-----------------------------------------------------------------------------
(* The turn.                                                               *)

RefreshTurn(h) ==
    /\ CanRead(turn, h)
    /\ turn' = Reads(turn, h)
    /\ UNCHANGED <<pool, serv, groups, slots, asked, update, now, cuts, complete,
                   begun>>

\* refresh() and refreshRequest()
Refresh(h) ==
    /\ turn.seen[h] # "nothing"
    /\ IF Wins(turn, h)
       THEN /\ turn' = Swapped(turn, h)
            /\ asked' = [asked EXCEPT ![h] = @ \cup {now}]
       ELSE /\ turn' = Loses(turn, h)
            /\ UNCHANGED asked
    /\ UNCHANGED <<pool, serv, groups, slots, update, now, cuts, complete, begun>>

RefreshDue ==
    /\ ~turn.due
    /\ Cardinality(UNION {{h} \X asked[h] : h \in Handler}) < MaxAsked
    /\ turn' = Due(turn)
    /\ UNCHANGED <<pool, serv, groups, slots, asked, update, now, cuts, complete,
                   begun>>

ClusterChanges ==
    /\ now < Len(History)
    /\ now' = now + 1
    /\ UNCHANGED <<pool, serv, groups, slots, turn, asked, update, cuts, complete,
                   begun>>

-----------------------------------------------------------------------------
(* handleResponse().                                                       *)

\* Another handler holds the mutex of the pool: its answer is being applied.
Locked == update # NoUpdate

\* An answer to h comes from the node at address by, with a view that was true
\* since h asked; upto nodes of it can be read (none of an error).
HandleResponse(h) ==
    \E from \in asked[h] :
       /\ asked' = [asked EXCEPT ![h] = @ \ {from}]
       /\ \/ /\ Locked
             /\ UNCHANGED <<update, cuts, begun>>
          \/ /\ ~Locked
             /\ \E v \in from..now, by \in Answering \cap Range(pool) :
                \E upto \in IF cuts < MaxCuts THEN 0..Len(History[v])
                            ELSE {Len(History[v])} :
                   /\ update' = [view |-> v, by |-> by, upto |-> upto,
                                 next |-> 1, listed |-> {}, settled |-> 0]
                   /\ cuts' = IF upto < Len(History[v]) THEN cuts + 1 ELSE cuts
                   /\ begun' = begun \cup {v}
       /\ UNCHANGED <<pool, serv, groups, slots, turn, now, complete>>

View == History[update.view]

\* The search without the question whether the node says it is itself.
ServerOfUnknown(n) == IF Contains(pool, n.addr) THEN n.addr ELSE update.by

\* The server a node stands for: the one with its address; or the one that has
\* answered, if the node says it is itself; or the one with its address without
\* the cluster port.
ServerOf(n) ==
    CASE ~WithCport /\ Contains(pool, n.addr) -> n.addr
      [] (WithCport \/ ~Contains(pool, n.addr)) /\ n.id = NodeAt[update.by] -> update.by
      [] WithCport /\ n.id # NodeAt[update.by] /\ Contains(pool, n.addr) -> n.addr
      [] OTHER -> Nothing

Created(n) ==
    ServerOf(n) = Nothing /\ n.role # "unknown" /\ ~n.bad /\ Len(pool) < MaxServNum

Exists(g) == g \in Id /\ groups[g] # Nothing

MoreGroups == Cardinality({g \in Id : Exists(g)}) < MaxGroupNum

\* The handler reads the next node.  A master gets its group and its slots.
ParseNode ==
    /\ Locked
    /\ update.next <= update.upto
    /\ LET n == View[update.next]
           a == IF Created(n) THEN n.addr ELSE ServerOf(n)
       IN IF n.addr = Nothing \/ a = Nothing
          THEN /\ update' = [update EXCEPT !.next = @ + 1]
               /\ UNCHANGED <<pool, serv, groups, slots>>
          ELSE /\ update' = [update EXCEPT !.next = @ + 1, !.listed = @ \cup {a}]
               /\ pool' = IF Created(n) THEN Append(pool, a) ELSE pool
               /\ serv' = [serv EXCEPT ![a].role = n.role, ![a].name = n.id,
                                       ![a].master = n.master]
               /\ IF n.role = "master" /\ (Exists(n.id) \/ MoreGroups)
                  THEN /\ groups' = [groups EXCEPT
                             ![n.id] = Added(IF Exists(n.id) THEN @ ELSE <<>>, a)]
                       /\ slots' = [s \in Slot |->
                                      IF s \in n.slots THEN n.id ELSE slots[s]]
                  ELSE UNCHANGED <<groups, slots>>
    /\ UNCHANGED <<turn, asked, now, cuts, complete, begun>>

ParseErrorFound ==
    Locked /\ update.upto < update.next /\ update.upto < Len(View)

\* The parse error that leaves the pool locked.
ParseErrorLocked ==
    /\ ParseErrorFound
    /\ UNCHANGED clusterVars

\* What is left of the answer cannot be parsed: the handler leaves all as it is.
ParseError ==
    /\ ParseErrorFound
    /\ update' = NoUpdate
    /\ UNCHANGED <<pool, serv, groups, slots, turn, asked, now, cuts, complete,
                   begun>>

Finished ==
    /\ Locked
    /\ update.next > Len(View)

\* The group a server belongs in.
GroupOf(a) ==
    LET g == CASE serv[a].role = "master" -> serv[a].name
               [] serv[a].role = "slave"  -> serv[a].master
               [] OTHER                   -> Nothing
    IN IF Exists(g) THEN g ELSE Nothing

\* A slave whose group is not found is left without one; the pointer of a
\* master or of a server of unknown role stays.
Pointer(a) ==
    LET old == serv[a].group
        new == GroupOf(a)
    IN IF new = Nothing /\ (serv[a].role # "slave" \/ old = Nothing) THEN old ELSE new

\* The settling of a server that forgets to remove it from its old group.
RegroupedAlso(a) ==
    IF GroupOf(a) = Nothing THEN groups
    ELSE [groups EXCEPT ![GroupOf(a)] = Added(@, a)]

Regrouped(a) ==
    [g \in Id |->
       IF g = GroupOf(a) THEN Added(groups[g], a)
       ELSE IF g = serv[a].group THEN Removed(groups[g], a)
       ELSE groups[g]]

\* All nodes are read: the next server of the pool is put into its group, unless
\* the answer did not have it.
SettleServer ==
    /\ Finished
    /\ update.settled < Len(pool)
    /\ update' = [update EXCEPT !.settled = @ + 1]
    /\ LET a == pool[update.settled + 1]
       IN IF a \in update.listed
          THEN /\ groups' = Regrouped(a)
               /\ serv' = [serv EXCEPT ![a].group = Pointer(a)]
          ELSE UNCHANGED <<groups, serv>>
    /\ UNCHANGED <<pool, slots, turn, asked, now, cuts, complete, begun>>

EndUpdate ==
    /\ Finished
    /\ update.settled = Len(pool)
    /\ complete' = update.view
    /\ begun' = {update.view}
    /\ update' = NoUpdate
    /\ UNCHANGED <<pool, serv, groups, slots, turn, asked, now, cuts>>

UpdateStep == ParseNode \/ ParseError \/ SettleServer \/ EndUpdate

ClusterNext ==
    \/ \E h \in Handler : RefreshTurn(h) \/ Refresh(h) \/ HandleResponse(h)
    \/ RefreshDue \/ ClusterChanges
    \/ UpdateStep

\* Every handler looks for its turn after each wait of at most 100 ms, requests
\* are answered, and the handler that applies an answer does not stop.
ClusterFairness ==
    /\ WF_clusterVars(RefreshDue) /\ WF_clusterVars(UpdateStep)
    /\ \A h \in Handler :
          /\ WF_clusterVars(RefreshTurn(h) \/ Refresh(h))
          /\ WF_clusterVars(HandleResponse(h))

ClusterSpec == ClusterInit /\ [][ClusterNext]_clusterVars /\ ClusterFairness

-----------------------------------------------------------------------------
\* Where a write to a slot goes: the first master of its group (getServer).
Target(s) ==
    LET list  == IF slots[s] = Nothing THEN <<>> ELSE groups[slots[s]]
        found == {i \in DOMAIN list : serv[list[i]].role = "master"}
    IN IF found = {} THEN Nothing
       ELSE list[CHOOSE i \in found : \A j \in found : i <= j]

Owners(v, s) == {n.id : n \in {n \in Range(History[v]) :
                                  n.role = "master" /\ s \in n.slots}}

\* In each refresh interval one handler at most asks for the nodes, whatever the
\* others have read before (ServerPool::refresh).
RefreshedOnce == turn.won <= 1

\* At every moment, in the midst of an update and after one that was cut short,
\* a write goes to no server but one that owns the slot in the last complete
\* view or in one whose application began since.
NeverElsewhere ==
    \A s \in Slot :
       Target(s) # Nothing =>
          NodeAt[Target(s)] \in UNION {Owners(v, s) : v \in begun}

\* When a view has been applied to its end, a write to a slot goes to the owner,
\* and each server of the view is in the list of its shard and in no other but
\* the one of its own name (where an answer that was cut short may have left it,
\* without a pointer to remove it by).  A node known under two addresses, or one
\* that failed under an address it does not announce, may not be updated.
ClusterSettled ==
    update = NoUpdate /\ complete # 0 /\ begun = {complete} =>
       /\ \A s \in Slot : Owners(complete, s) # {} =>
             Target(s) # Nothing /\ NodeAt[Target(s)] \in Owners(complete, s)
       /\ \A a \in Range(pool), n \in Range(History[complete]) :
             /\ n.addr = a /\ n.role \in {"master", "slave"}
             /\ \A b \in Range(pool) : NodeAt[b] = n.id => b = a
             =>
             LET shard == IF n.role = "master" THEN n.id ELSE n.master
             IN {g \in Id : Exists(g) /\ Contains(groups[g], a)}
                   \in {{shard}, {shard, n.id}}

\* When the pool is refreshed again and again then, whatever was lost, late or
\* cut short, it comes to the view that stays true of the cluster.
Converges ==
    []<>(\E h \in Handler : asked[h] # {}) => <>[](complete = now /\ begun = {now})
=============================================================================
