--------------------------- MODULE StandalonePool ---------------------------
(***************************************************************************)
(* The pool of standalone groups that are watched by sentinels.  In each   *)
(* refresh the handler that has the turn asks, for every group, for its    *)
(* sentinels, its master and its slaves: three requests that go to some    *)
(* sentinel each, so that their answers come in any order and may be of    *)
(* different times.  An answer is applied under the lock of the pool.      *)
(*                                                                         *)
(* History is what the sentinels go through: the sentinels, and the master *)
(* and the slaves of each group.                                           *)
(***************************************************************************)
EXTENDS Integers, FiniteSets, ServerList

CONSTANTS
    Watched,        \* the groups
    Address,        \* addresses of servers
    ConfiguredIn,   \* the configured servers of each group, in order
    Sentinels,      \* the configured sentinels
    Views,          \* the history
    MaxServers, MaxSentinelNum,
    MaxLate,        \* bound: the requests under way when an interval ends
    MaxLost,        \* bound: the answers that are lost or cut short
    NoGroup

ASSUME StandaloneAssumption ==
    /\ ConfiguredIn \in [Watched -> Seq(Address)]
    /\ \A v \in Range(Views), g \in Watched :
          v.group[g].master \in Address /\ v.group[g].slaves \in Seq(Address)
    /\ Views \in Seq(Range(Views)) /\ Views # <<>>
    /\ NoGroup \notin Watched

Kind == {"sentinels", "master", "slaves"}

VARIABLES
    server,     \* the servers of mServPool: online, role and group
    members,    \* mServs of each group
    sentinels,  \* mSentinels
    requests,   \* the requests under way, with the view when they were sent
    actual,     \* the view that is true
    lost

standaloneVars == <<server, members, sentinels, requests, actual, lost>>

\* Configured servers are offline and without a role until a sentinel names them.
StandaloneInit ==
    /\ server = [a \in UNION {Range(ConfiguredIn[g]) : g \in Watched} |->
                   [online |-> FALSE, role |-> "unknown",
                    group |-> CHOOSE g \in Watched : Contains(ConfiguredIn[g], a)]]
    /\ members = ConfiguredIn
    /\ sentinels = Sentinels
    /\ requests = {}
    /\ actual = 1 /\ lost = 0

\* refreshRequest()
AskSentinels ==
    /\ Cardinality(requests) <= MaxLate
    /\ requests' = requests \cup
          [kind : Kind, group : Watched, from : {actual}]
    /\ UNCHANGED <<server, members, sentinels, actual, lost>>

ViewChanges ==
    /\ actual < Len(Views)
    /\ actual' = actual + 1
    /\ UNCHANGED <<server, members, sentinels, requests, lost>>

-----------------------------------------------------------------------------
(* The pool, as far as an answer changes it.                               *)

State == [server |-> server, members |-> members, full |-> FALSE]

\* The servers when a is online in g with this role.
Online(servers, a, g, role) ==
    [b \in DOMAIN servers \cup {a} |->
       IF b = a THEN [online |-> TRUE, role |-> role, group |-> g] ELSE servers[b]]

\* What follows, as it would be if a server did not leave its old group.
PlacedStaying(st, a, g, role) ==
    [st EXCEPT !.server = Online(@, a, g, role),
               !.members[g] = Added(@, a)]

\* A sentinel has named a as a server of g with this role.  A server that is new
\* is created, unless the pool is full, and then the rest is ignored, too.
Placed(st, a, g, role) ==
    LET old == IF a \in DOMAIN st.server THEN st.server[a].group ELSE NoGroup
        left == IF old \in Watched \ {g}
                THEN [st EXCEPT !.members[old] = Removed(@, a)] ELSE st
    IN IF st.full \/ (old = NoGroup /\ Cardinality(DOMAIN st.server) = MaxServers)
       THEN [st EXCEPT !.full = TRUE]
       ELSE [left EXCEPT !.server = Online(@, a, g, role),
                         !.members[g] = IF old = g THEN @ ELSE Added(@, a)]

Apply(st) ==
    /\ server' = st.server
    /\ members' = st.members

-----------------------------------------------------------------------------
(* handleResponse(): an answer of a view that was true since the request    *)
(* was sent, of which a list may be cut short.  It is lost on an error, and *)
(* when another handler applies an answer at the same time.                 *)

Answered(req) == requests' = requests \ {req}

LostAnswer(req) ==
    /\ lost < MaxLost
    /\ lost' = lost + 1
    /\ Answered(req)
    /\ UNCHANGED <<server, members, sentinels, actual>>

\* How much of a list can be parsed.
CutOrNot(list) ==
    {[part |-> list, cost |-> 0]} \cup
    {[part |-> SubSeq(list, 1, n), cost |-> 1] :
        n \in IF lost < MaxLost THEN 0..Len(list) - 1 ELSE {}}

HandleSentinels(req) ==
    /\ req.kind = "sentinels"
    /\ Answered(req)
    /\ \E v \in req.from..actual : \E p \in CutOrNot(Views[v].sentinels) :
          /\ sentinels' = FoldLeft(LAMBDA known, s : IF Len(known) = MaxSentinelNum THEN known ELSE Added(known, s),
                                   sentinels, p.part)
          /\ lost' = lost + p.cost
    /\ UNCHANGED <<server, members, actual>>

\* The handler of the master as it would be if it left the role of a server that
\* is known alone.
HandleGetMasterRole(req) ==
    /\ req.kind = "master"
    /\ Answered(req)
    /\ \E v \in req.from..actual :
          LET a == Views[v].group[req.group].master
          IN Apply(Placed(State, a, req.group,
                          IF a \in DOMAIN server THEN server[a].role ELSE "master"))
    /\ UNCHANGED <<sentinels, actual, lost>>

HandleGetMaster(req) ==
    /\ req.kind = "master"
    /\ Answered(req)
    /\ \E v \in req.from..actual :
          Apply(Placed(State, Views[v].group[req.group].master, req.group, "master"))
    /\ UNCHANGED <<sentinels, actual, lost>>

HandleSlaves(req) ==
    /\ req.kind = "slaves"
    /\ Answered(req)
    /\ \E v \in req.from..actual : \E p \in CutOrNot(Views[v].group[req.group].slaves) :
          /\ Apply(FoldLeft(LAMBDA st, a : Placed(st, a, req.group, "slave"),
                            State, p.part))
          /\ lost' = lost + p.cost
    /\ UNCHANGED <<sentinels, actual>>

Answer(req) == HandleSentinels(req) \/ HandleGetMaster(req) \/ HandleSlaves(req)

AnswerSome(k, g) ==
    \E req \in requests : req.kind = k /\ req.group = g /\ Answer(req)

StandaloneNext ==
    \/ AskSentinels \/ ViewChanges
    \/ \E req \in requests : Answer(req) \/ LostAnswer(req)

\* The pool is refreshed again and again, and of the requests of each kind and
\* group some is answered.
StandaloneFairness ==
    /\ WF_standaloneVars(AskSentinels)
    /\ \A k \in Kind, g \in Watched : WF_standaloneVars(AnswerSome(k, g))

StandaloneSpec ==
    StandaloneInit /\ [][StandaloneNext]_standaloneVars /\ StandaloneFairness

-----------------------------------------------------------------------------
\* Where a write to a group goes: its first master that is online.
MasterOf(g) ==
    LET found == SelectInSeq(members[g],
                    LAMBDA a : server[a].online /\ server[a].role = "master")
    IN IF found = 0 THEN NoGroup ELSE members[g][found]

\* A server is in the list of the group it points to, and in no other, also when
\* it moves from group to group and answers of before and after are mixed.
MembersAgree ==
    \A a \in DOMAIN server : {g \in Watched : Contains(members[g], a)} = {server[a].group}

\* When the pool is refreshed again and again then, whatever was lost, late or
\* cut short, writes come to go to the master the sentinels name: an old master,
\* which stays online and first in the list, is named as a slave.
MasterFollowed ==
    []<>(requests # {}) =>
       <>[](\A g \in Watched : MasterOf(g) = Views[actual].group[g].master)
=============================================================================
