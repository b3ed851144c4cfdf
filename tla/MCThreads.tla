----------------------------- MODULE MCThreads -----------------------------
(***************************************************************************)
(* Small instances of the components that threads share without the        *)
(* pipelines between them.  They have no state in common; so that their    *)
(* states are added and not multiplied, a behaviour is one of the          *)
(* component in focus, and the others rest in their initial state.         *)
(***************************************************************************)
EXTENDS LogQueue, ServerHealth, ServerGroup, ClusterPool, StandalonePool, Memory,
        Clients

CONSTANTS h1, h2, g1, g2

VARIABLE focus

-----------------------------------------------------------------------------
(* Constants.                                                              *)

SizesOf == [c \in Class |-> IF c = "request" THEN 2 ELSE 3]

Node(address, id, role, master, bad, ranges) ==
    [addr |-> address, id |-> id, role |-> role, master |-> master, bad |-> bad,
     slots |-> ranges]

Addresses == {"a1", "a2", "a3"}
NodesAt == [a \in Addr |-> CASE a = "a1" -> "n1" [] a = "a2" -> "n2" [] OTHER -> "n3"]
ClusterServers == <<"a1", "a2">>

\* A slave is promoted and its master fails; then it takes over the other
\* master's slots, which it lists apart from its own.
ClusterHistory == <<
    <<Node("a1", "n1", "master", Nothing, FALSE, {1}),
      Node("a2", "n2", "master", Nothing, FALSE, {2}),
      Node("a3", "n3", "slave", "n1", FALSE, {})>>,
    <<Node("a3", "n3", "master", Nothing, FALSE, {1}),
      Node("a1", "n1", "slave", "n3", TRUE, {}),
      Node("a2", "n2", "master", Nothing, FALSE, {2})>>,
    <<Node("a3", "n3", "master", Nothing, FALSE, {1}),
      Node("a3", "n3", "master", Nothing, FALSE, {2}),
      Node("a2", "n2", "slave", "n3", FALSE, {})>> >>

GroupServers == [g \in Watched |-> IF g = g1 THEN <<"a", "b">> ELSE <<"c">>]

HandlersInOrder == <<h1, h2>>

FirstSentinel == <<"p">>

Shard(master, slaves) == [master |-> master, slaves |-> slaves]

\* Both groups fail over, one to a new server, and a server changes its group.
SentinelHistory == <<
    [sentinels |-> <<"p", "q">>,
     group |-> [g \in Watched |-> IF g = g1 THEN Shard("a", <<"b">>)
                                  ELSE Shard("c", <<>>)]],
    [sentinels |-> <<"p", "q">>,
     group |-> [g \in Watched |-> IF g = g1 THEN Shard("b", <<>>)
                                  ELSE Shard("d", <<"c", "a">>)]] >>

-----------------------------------------------------------------------------
ThreadsInit ==
    /\ focus \in {"log", "health", "group", "cluster", "standalone", "memory",
                 "clients"}
    /\ LogInit /\ HealthInit /\ GroupInit /\ ClusterInit /\ StandaloneInit
    /\ MemoryInit /\ ClientsInit

InFocus(c) == focus = c /\ UNCHANGED focus

Rest(c, variables) == focus # c => UNCHANGED variables

ThreadsNext ==
    /\ \/ InFocus("log") /\ LogNext
       \/ InFocus("health") /\ HealthNext
       \/ InFocus("group") /\ GroupNext
       \/ InFocus("cluster") /\ ClusterNext
       \/ InFocus("standalone") /\ StandaloneNext
       \/ InFocus("memory") /\ MemoryNext
       \/ InFocus("clients") /\ ClientsNext
    /\ Rest("log", logVars) /\ Rest("health", healthVars)
    /\ Rest("group", groupVars) /\ Rest("cluster", clusterVars)
    /\ Rest("standalone", standaloneVars) /\ Rest("memory", memoryVars)
    /\ Rest("clients", clientVars)

threadsVars == <<focus, logVars, healthVars, groupVars, clusterVars,
                 standaloneVars, memoryVars, clientVars>>

\* The fairness of each component, when it is in focus.
ThreadsFairness ==
    /\ WF_logVars(focus = "log" /\ RunStep)
    /\ \A w \in Writer : WF_logVars(focus = "log" /\ (WakeUp(w) \/ Put(w)))
    /\ WF_healthVars(focus = "health" /\ RetryDue)
    /\ WF_clusterVars(focus = "cluster" /\ RefreshDue)
    /\ WF_clusterVars(focus = "cluster" /\ UpdateStep)
    /\ \A h \in Handler :
          /\ WF_healthVars(focus = "health" /\ (CheckTurn(h) \/ Check(h)))
          /\ WF_healthVars(focus = "health" /\ Pong(h))
          /\ WF_clusterVars(focus = "cluster" /\ (RefreshTurn(h) \/ Refresh(h)))
          /\ WF_clusterVars(focus = "cluster" /\ HandleResponse(h))
    /\ WF_standaloneVars(focus = "standalone" /\ AskSentinels)
    /\ \A k \in Kind, g \in Watched :
          WF_standaloneVars(focus = "standalone" /\ AnswerSome(k, g))
    /\ WF_clientVars(focus = "clients" /\ Tick)
    /\ \A h \in Range(Handlers) : WF_clientVars(focus = "clients" /\ CheckClientTimeout(h))
    /\ \A c \in Client : WF_clientVars(focus = "clients" /\ FirstEvent(c))

ThreadsSpec ==
    ThreadsInit /\ [][ThreadsNext]_threadsVars /\ ThreadsFairness
=============================================================================
