----------------------------- MODULE PoolProofs -----------------------------
(***************************************************************************)
(* Theorems on what the handlers share of the pools, for any handlers:     *)
(* the turns they race for (the attempt to reach a failed server and the   *)
(* refresh of a cluster's pool), the lists of the groups of a pool of      *)
(* standalone servers that is watched by sentinels, and what a reader of   *)
(* such a list without a lock may rely on while another thread changes it. *)
(***************************************************************************)
EXTENDS ServerHealth, ClusterPool, StandalonePool, ServerGroup, FiniteSetTheorems, TLAPS

-----------------------------------------------------------------------------
(* Turns.                                                                  *)

\* One period has one turn: once it is had the period is over only later, and no
\* handler has a stamp that it could still swap.
OneTurn(t) ==
    /\ t \in Turns
    /\ IF t.due THEN t.won = 0
       ELSE t.won <= 1 /\ \A h \in Handler : t.seen[h] # "current"

-----------------------------------------------------------------------------
(* What the operations on a turn keep.                                     *)

\* A turn that starts has not been had.
LEMMA NewTurnOne == OneTurn(NewTurn)
BY DEF OneTurn, NewTurn, Turns

\* Reading the stamp gives no turn.
LEMMA ReadsOne ==
    ASSUME NEW t, OneTurn(t), NEW h \in Handler, CanRead(t, h)
    PROVE  OneTurn(Reads(t, h))
BY DEF OneTurn, CanRead, Reads, Turns

\* Swapping it, by one who read the stamp that still stands, is the only turn of
\* the period, and leaves the others with an old stamp.
LEMMA SwappedOne ==
    ASSUME NEW t, OneTurn(t), NEW h \in Handler, Wins(t, h)
    PROVE  OneTurn(Swapped(t, h))
<1>1. t.due /\ t.won = 0
  BY DEF OneTurn, Wins, Turns
<1>2. Swapped(t, h) \in Turns
  <2>1. \A g \in Handler :
           (IF g = h THEN "nothing"
            ELSE IF t.seen[g] = "current" THEN "old" ELSE t.seen[g])
              \in {"nothing", "current", "old"}
    BY DEF OneTurn, Turns
  <2> QED BY <1>1, <2>1 DEF Swapped, Turns
<1>3. Swapped(t, h).won = 1 /\ ~Swapped(t, h).due
  BY <1>1 DEF Swapped
<1>4. \A g \in Handler : Swapped(t, h).seen[g] # "current"
  BY DEF Swapped
<1> QED BY <1>2, <1>3, <1>4 DEF OneTurn

\* One who lost it leaves the rest as it is.
LEMMA LosesOne ==
    ASSUME NEW t, OneTurn(t), NEW h \in Handler
    PROVE  OneTurn(Loses(t, h))
BY DEF OneTurn, Loses, Turns

\* A period ends, and with it the count.
LEMMA DueOne ==
    ASSUME NEW t, OneTurn(t), ~t.due
    PROVE  OneTurn(Due(t))
BY DEF OneTurn, Due, Turns

\* The invariant is enough.
LEMMA OneTurnEnough ==
    ASSUME NEW t, OneTurn(t)
    PROVE  t.won <= 1
BY DEF OneTurn

-----------------------------------------------------------------------------
RetryOne == OneTurn(retry)

RefreshOne == OneTurn(turn)

\* In each retry period one handler at most tries the failed server, however many
\* of them read the stamp before (Server::activate).
THEOREM TriedOnceAlways == HealthSpec => []TriedOnce
<1>1. HealthInit => RetryOne
  BY NewTurnOne DEF RetryOne, HealthInit
<1>2. RetryOne /\ [HealthNext]_healthVars => RetryOne'
  <2> SUFFICES ASSUME OneTurn(retry), [HealthNext]_healthVars
               PROVE  OneTurn(retry')
    BY DEF RetryOne
  <2>1. ASSUME NEW h \in Handler, CheckTurn(h) PROVE OneTurn(retry')
    BY <2>1, ReadsOne DEF CheckTurn
  <2>2. ASSUME NEW h \in Handler, Check(h) PROVE OneTurn(retry')
    <3>1. CASE Wins(retry, h)
      BY <2>2, <3>1, SwappedOne DEF Check
    <3>2. CASE ~Wins(retry, h)
      BY <2>2, <3>2, LosesOne DEF Check
    <3> QED BY <3>1, <3>2
  <2>3. CASE RetryDue
    BY <2>3, DueOne DEF RetryDue
  <2>4. CASE UNCHANGED retry
    BY <2>4
  <2> QED BY <2>1, <2>2, <2>3, <2>4
          DEF HealthNext, healthVars, GetShareConnection, Broken, ServerTimeout, Pong,
              ServerGoesOrReturns
<1>3. RetryOne => TriedOnce
  BY OneTurnEnough DEF RetryOne, TriedOnce
<1> QED BY <1>1, <1>2, <1>3, PTL DEF HealthSpec

\* In each refresh interval one handler at most asks for the nodes of the cluster
\* (ServerPool::refresh).
THEOREM RefreshedOnceAlways == ClusterSpec => []RefreshedOnce
<1>1. ClusterInit => RefreshOne
  BY NewTurnOne DEF RefreshOne, ClusterInit
<1>2. RefreshOne /\ [ClusterNext]_clusterVars => RefreshOne'
  <2> SUFFICES ASSUME OneTurn(turn), [ClusterNext]_clusterVars
               PROVE  OneTurn(turn')
    BY DEF RefreshOne
  <2>1. ASSUME NEW h \in Handler, RefreshTurn(h) PROVE OneTurn(turn')
    BY <2>1, ReadsOne DEF RefreshTurn
  <2>2. ASSUME NEW h \in Handler, Refresh(h) PROVE OneTurn(turn')
    <3>1. CASE Wins(turn, h)
      BY <2>2, <3>1, SwappedOne DEF Refresh
    <3>2. CASE ~Wins(turn, h)
      BY <2>2, <3>2, LosesOne DEF Refresh
    <3> QED BY <3>1, <3>2
  <2>3. CASE RefreshDue
    BY <2>3, DueOne DEF RefreshDue
  <2>4. ASSUME NEW h \in Handler, HandleResponse(h) PROVE UNCHANGED turn
    BY <2>4 DEF HandleResponse
  <2>5. UpdateStep => UNCHANGED turn
    BY DEF UpdateStep, ParseNode, ParseError, SettleServer, EndUpdate
  <2>6. CASE UNCHANGED turn
    BY <2>6
  <2> QED BY <2>1, <2>2, <2>3, <2>4, <2>5, <2>6 DEF ClusterNext, clusterVars, ClusterChanges
<1>3. RefreshOne => RefreshedOnce
  BY OneTurnEnough DEF RefreshOne, RefreshedOnce
<1> QED BY <1>1, <1>2, <1>3, PTL DEF ClusterSpec

-----------------------------------------------------------------------------
(* The lists of the groups of a pool that sentinels watch.                 *)

\* No server is in a list twice.
NoTwice(list) == \A i, j \in 1..Len(list) : list[i] = list[j] => i = j

\* A list without repetitions that leaves out one of a set is shorter than it is large.
LEMMA ListIsShort ==
    ASSUME NEW S, IsFiniteSet(S), NEW list \in Seq(S), NoTwice(list),
           NEW a \in S, ~Contains(list, a)
    PROVE  Len(list) < Cardinality(S)
<1> DEFINE n == Len(list)
           T == {list[i] : i \in 1..n}
<1>1. n \in Nat /\ list \in [1..n -> S]
  OBVIOUS
<1>2. list \in Bijection(1..n, T)
  <2>1. list \in [1..n -> T]
    BY <1>1
  <2>2. IsInjective(list)
    BY <1>1 DEF IsInjective, NoTwice
  <2>3. \A t \in T : \E i \in 1..n : list[i] = t
    OBVIOUS
  <2> QED BY <2>1, <2>2, <2>3 DEF Bijection, Injection, Surjection
<1>3. Cardinality(T) = n
  BY <1>1, <1>2, FS_CountingElements DEF ExistsBijection
<1>4. T \subseteq S \ {a}
  BY <1>1 DEF Contains
<1>5. IsFiniteSet(S \ {a}) /\ Cardinality(S \ {a}) = Cardinality(S) - 1
  BY FS_RemoveElement
<1>6. Cardinality(T) <= Cardinality(S \ {a})
  BY <1>4, <1>5, FS_Subset
<1>7. Cardinality(S) \in Nat
  BY FS_CardinalityType
<1>8. n <= Cardinality(S) - 1
  BY <1>3, <1>5, <1>6
<1> HIDE DEF T, n
<1>9. n < Cardinality(S)
  BY <1>1, <1>7, <1>8
<1> QED BY <1>9 DEF n

\* Adding a server to a list that has room for it ...
LEMMA AddedHas ==
    ASSUME NEW S, NEW list \in Seq(S), NoTwice(list), NEW a \in S,
           ~Contains(list, a), Len(list) # MaxServInGroup
    PROVE  /\ Added(list, a) \in Seq(S) /\ NoTwice(Added(list, a))
           /\ \A b : Contains(Added(list, a), b) <=> Contains(list, b) \/ b = a
<1> DEFINE n == Len(list)
           new == Added(list, a)
<1>1. new = Append(list, a)
  BY DEF Added
<1>2. /\ n \in Nat /\ new \in Seq(S) /\ Len(new) = n + 1
      /\ new[n + 1] = a /\ \A i \in 1..n : new[i] = list[i] /\ list[i] \in S
  BY <1>1
<1> HIDE DEF new
<1>3. \A i \in 1..n : new[i] # a
  BY <1>2 DEF Contains
<1>4. NoTwice(new)
  BY <1>2, <1>3 DEF NoTwice
<1>5. ASSUME NEW b PROVE Contains(new, b) <=> Contains(list, b) \/ b = a
  <2>1. n + 1 \in 1..Len(new) /\ \A i \in 1..n : i \in 1..Len(new)
    BY <1>2
  <2>2. \A i \in 1..Len(new) : i = n + 1 \/ i \in 1..n
    BY <1>2
  <2> QED BY <1>2, <2>1, <2>2 DEF Contains
<1> QED BY <1>2, <1>4, <1>5 DEF new

\* ... and removing one.
LEMMA RemovedHas ==
    ASSUME NEW S, NEW list \in Seq(S), NoTwice(list), NEW a \in S,
           Contains(list, a)
    PROVE  /\ Removed(list, a) \in Seq(S) /\ NoTwice(Removed(list, a))
           /\ \A b : Contains(Removed(list, a), b) <=> Contains(list, b) /\ b # a
<1> DEFINE n == Len(list)
           I == {j \in 1..n : list[j] = a}
           i == SelectInSeq(list, LAMBDA t : t = a)
           moved == [list EXCEPT ![i] = Last(list)]
           new == Removed(list, a)
<1>1. n \in Nat /\ n > 0 /\ I # {}
  BY DEF Contains
<1>2. PICK k \in I : TRUE
  BY <1>1
<1>3. i = k
  <2>1. I = {k}
    BY <1>2 DEF NoTwice
  <2>2. i = Min(I)
    BY <1>1 DEF SelectInSeq
  <2>3. Min({k}) = k
    BY <1>2 DEF Min
  <2> HIDE DEF I, i
  <2> QED BY <2>1, <2>2, <2>3
<1>4. new = SubSeq(moved, 1, Len(moved) - 1)
  BY DEF Removed, Front
<1> HIDE DEF i
<1>5. /\ moved \in Seq(S) /\ Len(moved) = n
      /\ \A j \in 1..n : moved[j] = IF j = k THEN list[n] ELSE list[j]
  <2>1. k \in 1..n /\ list[n] \in S
    BY <1>1, <1>2
  <2>2. moved = [list EXCEPT ![k] = list[n]]
    BY <1>3 DEF Last
  <2>3. list \in [1..n -> S]
    BY <1>1
  <2>4. [list EXCEPT ![k] = list[n]] \in [1..n -> S]
    BY <2>1, <2>3
  <2>5. \A j \in 1..n : [list EXCEPT ![k] = list[n]][j] = IF j = k THEN list[n] ELSE list[j]
    BY <2>1, <2>3
  <2>6. moved \in [1..n -> S]
    BY <2>2, <2>4
  <2> HIDE DEF moved
  <2>7. moved \in Seq(S) /\ Len(moved) = n
    BY <1>1, <2>6
  <2> QED BY <2>2, <2>5, <2>7
<1> HIDE DEF moved, new
<1>6. /\ new \in Seq(S) /\ Len(new) = n - 1
      /\ \A j \in 1..n - 1 : new[j] = moved[j]
  BY <1>1, <1>4, <1>5
<1>7. /\ \A j \in 1..n - 1 : new[j] = IF j = k THEN list[n] ELSE list[j]
      /\ \A j \in 1..n : list[j] = a <=> j = k
  BY <1>2, <1>5, <1>6 DEF NoTwice
<1>8. NoTwice(new)
  <2> SUFFICES ASSUME NEW x \in 1..n - 1, NEW y \in 1..n - 1, new[x] = new[y] PROVE x = y
    BY <1>6 DEF NoTwice
  <2>1. x \in 1..n /\ y \in 1..n /\ n \in 1..n /\ x # n /\ y # n
    BY <1>1
  <2> QED BY <1>7, <2>1 DEF NoTwice
<1>9. ASSUME NEW b PROVE Contains(new, b) <=> Contains(list, b) /\ b # a
  <2>1. ASSUME Contains(new, b) PROVE Contains(list, b) /\ b # a
    <3>1. PICK x \in 1..n - 1 : new[x] = b
      BY <1>6, <2>1 DEF Contains
    <3>2. x \in 1..n /\ n \in 1..n /\ x # n
      BY <1>1
    <3>3. CASE x = k
      BY <1>7, <3>1, <3>2, <3>3 DEF Contains
    <3>4. CASE x # k
      BY <1>7, <3>1, <3>2, <3>4 DEF Contains
    <3> QED BY <3>3, <3>4
  <2>2. ASSUME Contains(list, b), b # a PROVE Contains(new, b)
    <3>1. PICK x \in 1..n : list[x] = b
      BY <2>2 DEF Contains
    <3>2. x # k
      BY <1>7, <2>2, <3>1
    <3>3. CASE x = n
      <4>1. k \in 1..n - 1
        BY <1>2, <3>2, <3>3
      <4> QED BY <1>6, <1>7, <3>1, <3>3, <4>1 DEF Contains
    <3>4. CASE x # n
      <4>1. x \in 1..n - 1
        BY <1>1, <3>4
      <4> QED BY <1>6, <1>7, <3>1, <3>2, <4>1 DEF Contains
    <3> QED BY <3>3, <3>4
  <2> QED BY <2>1, <2>2
<1> QED BY <1>6, <1>8, <1>9 DEF new
-----------------------------------------------------------------------------
(* The pool.                                                               *)

\* The servers that are ever named for a group.
Named(g) ==
    Range(ConfiguredIn[g])
      \cup UNION {{Views[v].group[g].master} \cup Range(Views[v].group[g].slaves) :
                    v \in 1..Len(Views)}

\* A server is configured once, in one group.
ConfiguredOnce ==
    /\ \A g \in Watched : NoTwice(ConfiguredIn[g])
    /\ \A g, h \in Watched, a \in Address :
          Contains(ConfiguredIn[g], a) /\ Contains(ConfiguredIn[h], a) => g = h

\* No list of a group gets full.
RoomForAll ==
    \A g \in Watched : IsFiniteSet(Named(g)) /\ Cardinality(Named(g)) <= MaxServInGroup

\* The lists of the groups are those of the servers that point to them.
PoolOK(st) ==
    /\ st = [server |-> st.server, members |-> st.members, full |-> st.full]
    /\ st.server = [a \in DOMAIN st.server |-> st.server[a]]
    /\ \A a \in DOMAIN st.server : st.server[a].group \in Watched
    /\ st.members = [g \in Watched |-> st.members[g]]
    /\ \A g \in Watched : st.members[g] \in Seq(Named(g)) /\ NoTwice(st.members[g])
    /\ \A g \in Watched : \A a :
          Contains(st.members[g], a) <=> a \in DOMAIN st.server /\ st.server[a].group = g

\* A record of the pool is marked as full.
LEMMA FullSet ==
    ASSUME NEW s, NEW m, NEW full, NEW st, st = [server |-> s, members |-> m, full |-> full]
    PROVE  [st EXCEPT !.full = TRUE] = [server |-> s, members |-> m, full |-> TRUE]
<1>1. \A v : [[server |-> s, members |-> m, full |-> full] EXCEPT !.full = v]
              = [server |-> s, members |-> m, full |-> v]
  OBVIOUS
<1> QED BY <1>1, Zenon

BothChanged(st, S, g, list) == [st EXCEPT !.server = S, !.members[g] = list]

\* The servers and one list of a record of the pool are changed.
LEMMA BothSet ==
    ASSUME NEW s, NEW m, NEW full, NEW st, st = [server |-> s, members |-> m, full |-> full],
           NEW S, NEW g, NEW list
    PROVE  BothChanged(st, S, g, list)
             = [server |-> S, members |-> [m EXCEPT ![g] = list], full |-> full]
<1> DEFINE x == [st EXCEPT !.server = S]
<1>1. x = [server |-> S, members |-> m, full |-> full]
  OBVIOUS
<1>2. [x EXCEPT !.members[g] = list] = [server |-> S, members |-> [m EXCEPT ![g] = list], full |-> full]
  <2> HIDE DEF x
  <2> QED BY <1>1
<1>3. BothChanged(st, S, g, list) = [x EXCEPT !.members[g] = list]
  BY DEF BothChanged
<1> QED BY <1>2, <1>3

\* Placing a server that may be of the group keeps them so.
LEMMA PlacedOK ==
    ASSUME RoomForAll, NEW st, PoolOK(st), NEW g \in Watched, NEW a \in Named(g), NEW role
    PROVE  PoolOK(Placed(st, a, g, role))
<1>1. PICK s, m, full : /\ st = [server |-> s, members |-> m, full |-> full]
                        /\ s = [b \in DOMAIN s |-> s[b]]
                        /\ m = [h \in Watched |-> m[h]]
  BY DEF PoolOK
<1>2. /\ \A b \in DOMAIN s : s[b].group \in Watched
      /\ \A h \in Watched : m[h] \in Seq(Named(h)) /\ NoTwice(m[h])
      /\ \A h \in Watched : \A b : Contains(m[h], b) <=> b \in DOMAIN s /\ s[b].group = h
  BY <1>1 DEF PoolOK
<1> DEFINE old == IF a \in DOMAIN s THEN s[a].group ELSE NoGroup
           Full == full \/ (old = NoGroup /\ Cardinality(DOMAIN s) = MaxServers)
           M == [h \in Watched |-> IF h = g THEN IF old = g THEN m[g] ELSE Added(m[g], a)
                                   ELSE IF h = old THEN Removed(m[h], a) ELSE m[h]]
           S == Online(s, a, g, role)
<1>3. Placed(st, a, g, role) = IF Full THEN [server |-> s, members |-> m, full |-> TRUE]
                               ELSE [server |-> S, members |-> M, full |-> full]
  <2>1. /\ st.server = s /\ st.members = m /\ st.full = full
        /\ [st EXCEPT !.full = TRUE] = [server |-> s, members |-> m, full |-> TRUE]
    BY <1>1, FullSet
  <2> DEFINE rest(x) == [x EXCEPT !.server = Online(@, a, g, role),
                                  !.members[g] = IF old = g THEN @ ELSE Added(@, a)]
  <2>2. CASE Full
    BY <2>1, <2>2 DEF Placed
  <2>3. CASE ~Full /\ old \in Watched \ {g}
    <3> DEFINE x == [st EXCEPT !.members[old] = Removed(@, a)]
    <3>1. Placed(st, a, g, role) = rest(x)
      BY <2>1, <2>3 DEF Placed
    <3>2. x = [server |-> s, members |-> [m EXCEPT ![old] = Removed(@, a)], full |-> full]
      BY <1>1
    <3>3. [[m EXCEPT ![old] = Removed(@, a)] EXCEPT ![g] = Added(@, a)] = M
      BY <1>1, <2>3
    <3> HIDE DEF x, old, M, S
    <3>4. x.server = s /\ x.members[g] = m[g] /\ old # g
      BY <1>1, <2>3, <3>2
    <3>5. rest(x) = BothChanged(x, S, g, Added(m[g], a))
      BY <3>4 DEF S, BothChanged
    <3>6. [[m EXCEPT ![old] = Removed(@, a)] EXCEPT ![g] = Added(m[g], a)] = M
      BY <1>1, <2>3, <3>3
    <3> DEFINE N == Added(m[g], a)
               m1 == [m EXCEPT ![old] = Removed(@, a)]
    <3> HIDE DEF rest, N, m1
    <3>7. rest(x) = [server |-> S, members |-> M, full |-> full]
      <4>1. BothChanged(x, S, g, N)
              = [server |-> S, members |-> [m1 EXCEPT ![g] = N], full |-> full]
        BY <3>2, BothSet DEF m1
      <4> QED BY <4>1, <3>5, <3>6 DEF N, m1
    <3> QED BY <2>3, <3>1, <3>7
  <2>4. CASE ~Full /\ old \notin Watched \ {g}
    <3>1. Placed(st, a, g, role) = rest(st)
      BY <2>1, <2>4 DEF Placed
    <3>2. [m EXCEPT ![g] = IF old = g THEN @ ELSE Added(@, a)] = M
      BY <1>1, <2>4
    <3> HIDE DEF old, M, S
    <3>3. rest(st) = BothChanged(st, S, g, IF old = g THEN m[g] ELSE Added(m[g], a))
      BY <2>1 DEF S, BothChanged
    <3> DEFINE N == IF old = g THEN m[g] ELSE Added(m[g], a)
    <3> HIDE DEF rest, N
    <3>4. rest(st) = [server |-> S, members |-> M, full |-> full]
      <4>1. BothChanged(st, S, g, N)
              = [server |-> S, members |-> [m EXCEPT ![g] = N], full |-> full]
        BY <1>1, BothSet
      <4> QED BY <4>1, <3>2, <3>3 DEF N
    <3> QED BY <2>4, <3>1, <3>4
  <2> QED BY <2>2, <2>3, <2>4
<1>4. \A b : /\ b \in DOMAIN S <=> b \in DOMAIN s \/ b = a
             /\ S[a].group = g
             /\ b \in DOMAIN s /\ b # a => S[b] = s[b]
  BY DEF Online
<1>5. S = [b \in DOMAIN S |-> S[b]]
  BY DEF Online
<1> DEFINE Agrees(h) == /\ M[h] \in Seq(Named(h)) /\ NoTwice(M[h])
                        /\ \A b : Contains(M[h], b) <=> b \in DOMAIN S /\ S[b].group = h
<1> HIDE DEF Agrees
<1>6. ASSUME NEW h \in Watched PROVE Agrees(h)
  <2>1. CASE h = g /\ old # g
    <3>1. ~Contains(m[g], a)
      BY <1>2, <2>1
    <3>2. Len(m[g]) < Cardinality(Named(g))
      BY <1>2, <3>1, ListIsShort DEF RoomForAll
    <3>3. Len(m[g]) # MaxServInGroup
      <4>1. Len(m[g]) \in Nat /\ Cardinality(Named(g)) \in Nat
        BY <1>2, FS_CardinalityType DEF RoomForAll
      <4> QED BY <3>2, <4>1 DEF RoomForAll
    <3>4. /\ Added(m[g], a) \in Seq(Named(g)) /\ NoTwice(Added(m[g], a))
          /\ \A b : Contains(Added(m[g], a), b) <=> Contains(m[g], b) \/ b = a
      BY <1>2, <3>1, <3>3, AddedHas
    <3>5. M[h] = Added(m[g], a)
      BY <2>1
    <3> HIDE DEF M, S
    <3> QED BY <1>2, <1>4, <2>1, <3>4, <3>5 DEF Agrees
  <2>2. CASE h # g /\ h = old
    <3>1. Contains(m[h], a)
      BY <1>2, <2>2, StandaloneAssumption
    <3>2. a \in Named(h)
      BY <1>2, <3>1 DEF Contains
    <3>3. /\ Removed(m[h], a) \in Seq(Named(h)) /\ NoTwice(Removed(m[h], a))
          /\ \A b : Contains(Removed(m[h], a), b) <=> Contains(m[h], b) /\ b # a
      BY <1>2, <3>1, <3>2, RemovedHas
    <3>4. M[h] = Removed(m[h], a)
      BY <2>2
    <3> HIDE DEF M, S
    <3> QED BY <1>2, <1>4, <2>2, <3>3, <3>4 DEF Agrees
  <2>3. CASE (h = g /\ old = g) \/ (h # g /\ h # old)
    <3>1. M[h] = m[h]
      BY <2>3
    <3>2. h = g => a \in DOMAIN s /\ s[a].group = g
      BY <2>3, StandaloneAssumption
    <3>3. h # g => ~(a \in DOMAIN s /\ s[a].group = h)
      BY <2>3
    <3> HIDE DEF M, S, old
    <3>4. ASSUME NEW b PROVE Contains(m[h], b) <=> b \in DOMAIN S /\ S[b].group = h
      <4>1. CASE b = a
        BY <1>2, <1>4, <3>2, <3>3, <4>1
      <4>2. CASE b # a
        BY <1>2, <1>4, <4>2
      <4> QED BY <4>1, <4>2
    <3> QED BY <1>2, <3>1, <3>4 DEF Agrees
  <2> HIDE DEF old
  <2> QED BY <2>1, <2>2, <2>3
<1>7. PoolOK([server |-> s, members |-> m, full |-> TRUE])
  BY <1>1, <1>2 DEF PoolOK
<1>8. \A b \in DOMAIN S : S[b].group \in Watched
  BY <1>2, <1>4
<1>9. M = [h \in Watched |-> M[h]]
  OBVIOUS
<1> HIDE DEF S, M
<1>10. PoolOK([server |-> S, members |-> M, full |-> full])
  BY <1>5, <1>6, <1>8, <1>9 DEF PoolOK, Agrees
<1> HIDE DEF old
<1> QED BY <1>3, <1>7, <1>10

-----------------------------------------------------------------------------
(* The slaves of an answer, one after the other.                           *)

PlaceStep(g, role, st, a) == Placed(st, a, g, role)

PlacedSoFar(g, role, b, q, n, st) == PoolOK(st)

PlaceAll == INSTANCE LeftFold WITH Op <- PlaceStep, P <- PlacedSoFar

AllPlaced(st, g, role, q) == FoldLeft(LAMBDA x, a : Placed(x, a, g, role), st, q)

\* The slaves of an answer keep the lists, too.
LEMMA AllPlacedOK ==
    ASSUME RoomForAll, NEW st, PoolOK(st), NEW g \in Watched, NEW q \in Seq(Named(g)), NEW role
    PROVE  PoolOK(AllPlaced(st, g, role, q))
<1>1. PlacedSoFar(g, role, st, q, 0, st)
  BY DEF PlacedSoFar
<1>2. \A n \in 1..Len(q) : \A x :
         PlacedSoFar(g, role, st, q, n - 1, x)
           => PlacedSoFar(g, role, st, q, n, PlaceStep(g, role, x, q[n]))
  <2>1. \A n \in 1..Len(q) : q[n] \in Named(g)
    OBVIOUS
  <2> QED BY <2>1, PlacedOK DEF PlacedSoFar, PlaceStep
<1>3. PlacedSoFar(g, role, st, q, Len(q), PlaceAll!Fold(g, role, st, q))
  BY <1>1, <1>2, PlaceAll!FoldKeeps
<1>4. PlaceAll!Fold(g, role, st, q) = AllPlaced(st, g, role, q)
  BY DEF PlaceAll!Fold, PlaceAll!FoldLeft, PlaceAll!MapThenFoldSet, PlaceAll!Max,
         FoldLeft, MapThenFoldSet, Max, PlaceStep, AllPlaced
<1> QED BY <1>3, <1>4 DEF PlacedSoFar

-----------------------------------------------------------------------------
(* The pool as it is refreshed.                                            *)

\* The requests under way ask for views that there are.
StandaloneInv ==
    /\ PoolOK(State)
    /\ actual \in 1..Len(Views)
    /\ \A req \in requests : req.from \in 1..actual /\ req.group \in Watched

\* What an answer names for a group.
LEMMA AnswersName ==
    ASSUME NEW v \in 1..Len(Views), NEW g \in Watched
    PROVE  /\ Views[v].group[g].master \in Named(g)
           /\ Views[v].group[g].slaves \in Seq(Named(g))
           /\ \A p \in CutOrNot(Views[v].group[g].slaves) : p.part \in Seq(Named(g))
<1> DEFINE list == Views[v].group[g].slaves
<1>1. Views[v] \in Range(Views)
  BY StandaloneAssumption DEF Range
<1>2. list \in Seq(Address)
  BY <1>1, StandaloneAssumption
<1>3. /\ Views[v].group[g].master \in Named(g)
      /\ Range(list) \subseteq Named(g)
  BY DEF Named
<1> HIDE DEF list
<1>4. list \in Seq(Named(g))
  BY <1>2, <1>3 DEF Range
<1>5. \A n \in 0..Len(list) - 1 : SubSeq(list, 1, n) \in Seq(Named(g))
  BY <1>4
<1>6. \A p \in CutOrNot(list) : p.part \in Seq(Named(g))
  BY <1>4, <1>5 DEF CutOrNot
<1> QED BY <1>3, <1>4, <1>6 DEF list

\* The configured servers are in the lists of their groups.
LEMMA StandaloneInitInv ==
    ASSUME ConfiguredOnce, StandaloneInit
    PROVE  StandaloneInv
<1> DEFINE D == UNION {Range(ConfiguredIn[g]) : g \in Watched}
<1>1. \A g \in Watched : /\ ConfiguredIn[g] \in Seq(Named(g))
                         /\ \A a : Contains(ConfiguredIn[g], a) <=> a \in Range(ConfiguredIn[g])
  BY StandaloneAssumption DEF Named, Range, Contains
<1>2. \A a \in D : /\ server[a].group \in Watched
                   /\ Contains(ConfiguredIn[server[a].group], a)
  BY <1>1 DEF StandaloneInit
<1>3. ASSUME NEW g \in Watched, NEW a
      PROVE  Contains(ConfiguredIn[g], a) <=> a \in D /\ server[a].group = g
  <2>1. ASSUME Contains(ConfiguredIn[g], a) PROVE a \in D /\ server[a].group = g
    <3>1. a \in D /\ a \in Address
      BY <1>1, <2>1, StandaloneAssumption DEF Contains
    <3> HIDE DEF D
    <3> QED BY <1>2, <2>1, <3>1 DEF ConfiguredOnce
  <2>2. ASSUME a \in D, server[a].group = g PROVE Contains(ConfiguredIn[g], a)
    BY <1>2, <2>2
  <2> QED BY <2>1, <2>2
<1>4. DOMAIN server = D /\ server = [a \in D |-> server[a]]
  BY DEF StandaloneInit
<1>5. members = ConfiguredIn /\ members = [g \in Watched |-> members[g]]
  BY StandaloneAssumption DEF StandaloneInit
<1> HIDE DEF D
<1>6. PoolOK([server |-> server, members |-> members, full |-> FALSE])
  BY <1>1, <1>2, <1>3, <1>4, <1>5 DEF PoolOK, ConfiguredOnce
<1>7. 1 \in 1..Len(Views)
  BY StandaloneAssumption
<1> QED BY <1>6, <1>7 DEF StandaloneInv, State, StandaloneInit

\* What is applied under the lock leaves the lists so.
LEMMA AppliedOK ==
    ASSUME NEW st, PoolOK(st), Apply(st)
    PROVE  PoolOK(State)'
<1>1. PICK s, m, full : st = [server |-> s, members |-> m, full |-> full]
  BY DEF PoolOK
<1>2. server' = s /\ members' = m /\ st.server = s /\ st.members = m
  BY <1>1 DEF Apply
<1>3. PoolOK([server |-> s, members |-> m, full |-> FALSE])
  BY <1>2 DEF PoolOK
<1>4. State' = [server |-> s, members |-> m, full |-> FALSE]
  BY <1>2 DEF State
<1>5. PoolOK(State')
  BY <1>3, <1>4
<1> QED BY <1>5 DEF PoolOK

\* Every step keeps the lists.
LEMMA StandaloneStepInv ==
    ASSUME RoomForAll, StandaloneInv, [StandaloneNext]_standaloneVars
    PROVE  StandaloneInv'
<1> USE DEF StandaloneInv
<1>1. CASE AskSentinels
  BY <1>1 DEF AskSentinels, State, Kind
<1>2. CASE ViewChanges
  <2>1. actual' \in 1..Len(Views) /\ \A n \in 1..actual : n \in 1..actual'
    BY <1>2, StandaloneAssumption DEF ViewChanges
  <2>2. requests' = requests /\ State' = State
    BY <1>2 DEF ViewChanges, State
  <2> QED BY <2>1, <2>2
<1>3. ASSUME NEW req \in requests, HandleSentinels(req) PROVE StandaloneInv'
  BY <1>3 DEF HandleSentinels, Answered, State
<1>4. ASSUME NEW req \in requests, HandleGetMaster(req) PROVE StandaloneInv'
  <2>1. PICK v \in req.from..actual :
           Apply(Placed(State, Views[v].group[req.group].master, req.group, "master"))
    BY <1>4 DEF HandleGetMaster
  <2>2. v \in 1..Len(Views) /\ req.group \in Watched
    OBVIOUS
  <2>3. PoolOK(Placed(State, Views[v].group[req.group].master, req.group, "master"))
    BY <2>2, AnswersName, PlacedOK
  <2>4. PoolOK(State)'
    BY <2>1, <2>3, AppliedOK
  <2> QED BY <1>4, <2>4 DEF HandleGetMaster, Answered
<1>5. ASSUME NEW req \in requests, HandleSlaves(req) PROVE StandaloneInv'
  <2>1. PICK v \in req.from..actual : \E p \in CutOrNot(Views[v].group[req.group].slaves) :
           Apply(AllPlaced(State, req.group, "slave", p.part))
    BY <1>5 DEF HandleSlaves, AllPlaced
  <2>2. v \in 1..Len(Views) /\ req.group \in Watched
    OBVIOUS
  <2>3. PICK p \in CutOrNot(Views[v].group[req.group].slaves) :
           Apply(AllPlaced(State, req.group, "slave", p.part))
    BY <2>1
  <2>4. p.part \in Seq(Named(req.group))
    BY <2>2, AnswersName
  <2>5. PoolOK(AllPlaced(State, req.group, "slave", p.part))
    BY <2>2, <2>4, AllPlacedOK
  <2>6. PoolOK(State)'
    BY <2>3, <2>5, AppliedOK
  <2> QED BY <1>5, <2>6 DEF HandleSlaves, Answered
<1>6. ASSUME NEW req \in requests, LostAnswer(req) PROVE StandaloneInv'
  BY <1>6 DEF LostAnswer, Answered, State
<1>7. CASE UNCHANGED standaloneVars
  BY <1>7 DEF standaloneVars, State
<1> QED BY <1>1, <1>2, <1>3, <1>4, <1>5, <1>6, <1>7 DEF StandaloneNext, Answer

\* A server is in the list of the group it points to, and in no other, whatever
\* answers of before and after a change are mixed
\* (StandaloneServerPool::handleGetMaster, handleSlaves).
THEOREM MembersAgreeAlways ==
    ASSUME ConfiguredOnce, RoomForAll
    PROVE  StandaloneSpec => []MembersAgree
<1>1. StandaloneInit => StandaloneInv
  BY StandaloneInitInv
<1>2. StandaloneInv /\ [StandaloneNext]_standaloneVars => StandaloneInv'
  BY StandaloneStepInv
<1>3. StandaloneInv => MembersAgree
  <2> SUFFICES ASSUME PoolOK(State), NEW a \in DOMAIN server
               PROVE  {g \in Watched : Contains(members[g], a)} = {server[a].group}
    BY DEF StandaloneInv, MembersAgree
  <2>1. State.server = server /\ State.members = members
    BY DEF State
  <2>2. server[a].group \in Watched
    BY <2>1 DEF PoolOK
  <2>3. \A g \in Watched : Contains(members[g], a) <=> server[a].group = g
    BY <2>1 DEF PoolOK
  <2> QED BY <2>2, <2>3
<1> QED BY <1>1, <1>2, <1>3, PTL DEF StandaloneSpec

-----------------------------------------------------------------------------
(* The list of one group that is read while it changes.                    *)

\* No server is twice among the first n.
Distinct(n) == \A i, j \in 1..n : place[i] = place[j] => i = j

\* The list, also in the middle of a change.
ListOK ==
    /\ place \in [1..MaxServInGroup -> Serv \cup {Null}]
    /\ size \in 0..MaxServInGroup
    /\ \A i \in 1..size : place[i] \in Serv
    /\ change.op \in {"none", "add", "remove"}
    /\ change.op = "none" => Distinct(size)
    /\ change.op = "add" => /\ size < MaxServInGroup
                            /\ place[size + 1] \in Serv
                            /\ Distinct(size + 1)
    /\ change.op = "remove" => size > 0 /\ Distinct(size - 1)

\* The reader, and what has been in the list since it started.
LookOK ==
    /\ look \in [reading : BOOLEAN, cnt : 0..MaxServInGroup,
                 next : 1..MaxServInGroup + 1, found : Serv \cup {Null}]
    /\ changes \in 0..2

\* What is in the list, or on its way into it, has been so since the reader started.
Seen ==
    look.reading =>
       /\ \A i \in 1..size : place[i] \in during
       /\ change.op = "add" => place[size + 1] \in during

\* Before the first change the list has the length that was read; until the second
\* one, a master that has stayed is still ahead of the reader.
Ahead ==
    /\ look.reading /\ changes = 0 => change.op = "none" /\ size = look.cnt
    /\ look.reading /\ changes <= 1 /\ look.found = Null =>
          \A m \in throughout \cap Master :
             \E i \in look.next..look.cnt : place[i] = m

GroupInv == ListOK /\ LookOK /\ Seen /\ NoStranger /\ Ahead

-----------------------------------------------------------------------------
\* The invariant holds at the start, when nobody reads and nothing changes.
LEMMA InitInv == GroupInit => GroupInv
<1> USE GroupAssumption
<1>1. GroupInit => ListOK
  BY DEF GroupInit, ListOK, Distinct, NoChange
<1>2. GroupInit => LookOK /\ Seen /\ NoStranger /\ Ahead
  BY DEF GroupInit, LookOK, Seen, NoStranger, Ahead, NoLook
<1> QED BY <1>1, <1>2 DEF GroupInv

\* A server is stored behind the list.
LEMMA AddStoreKeeps == ASSUME GroupInv, NEW s \in Serv, AddStore(s) PROVE GroupInv'
<1> USE GroupAssumption
<1>1. /\ change.op = "none" /\ change'.op = "add" /\ size' = size /\ size \in 0..MaxServInGroup - 1
      /\ \A i \in 1..MaxServInGroup : place'[i] = IF i = size + 1 THEN s ELSE place[i]
      /\ place' \in [1..MaxServInGroup -> Serv \cup {Null}]
      /\ look' = look
  BY DEF AddStore, Watch, GroupInv, ListOK
<1>2. \A i \in 1..size : place[i] \in Serv /\ place[i] # s /\ place'[i] = place[i]
  BY <1>1 DEF AddStore, Members, GroupInv, ListOK
<1>3. ListOK'
  <2>1. Distinct(size)
    BY <1>1 DEF GroupInv, ListOK
  <2>2. Distinct(size + 1)'
    BY <1>1, <1>2, <2>1 DEF Distinct
  <2> QED BY <1>1, <1>2, <2>2 DEF ListOK
<1>4. during' = during \cup Members(place', size') \cup {s}
  BY <1>1 DEF AddStore, Watch
<1>5. \A i \in 1..size : place'[i] \in during'
  BY <1>1, <1>2, <1>4 DEF Members
<1>6. LookOK' /\ Seen'
  BY <1>1, <1>4, <1>5 DEF AddStore, Watch, GroupInv, LookOK, Seen
<1>7. NoStranger'
  <2> SUFFICES ASSUME look.reading, NEW i \in look.next..look.cnt
               PROVE  place'[i] \in during'
    BY <1>1 DEF NoStranger
  <2>1. i \in 1..MaxServInGroup /\ place[i] \in during
    BY DEF GroupInv, LookOK, NoStranger
  <2> QED BY <1>1, <1>4, <2>1
<1>8. Ahead'
  <2>1. look.reading => changes' = IF changes < 2 THEN changes + 1 ELSE changes
    BY <1>1 DEF AddStore, Watch
  <2>2. SUFFICES ASSUME look.reading, changes' <= 1, look.found = Null,
                        NEW m \in throughout' \cap Master
                 PROVE  \E i \in look.next..look.cnt : place'[i] = m
    BY <1>1, <2>1 DEF Ahead, GroupInv, LookOK
  <2>3. changes = 0 /\ size = look.cnt /\ m \in throughout
    BY <2>1, <2>2 DEF AddStore, Watch, GroupInv, LookOK, Ahead
  <2>4. PICK i \in look.next..look.cnt : place[i] = m
    BY <2>2, <2>3 DEF GroupInv, Ahead
  <2>5. i \in 1..size
    BY <2>2, <2>3, <2>4 DEF GroupInv, LookOK
  <2> QED BY <1>2, <2>4, <2>5
<1> QED BY <1>3, <1>6, <1>7, <1>8 DEF GroupInv

\* The list grows over it.
LEMMA AddGrowKeeps == ASSUME GroupInv, AddGrow PROVE GroupInv'
<1> USE GroupAssumption
<1>1. /\ change.op = "add" /\ change'.op = "none" /\ size' = size + 1 /\ place' = place
      /\ look' = look /\ changes' = changes /\ throughout' \subseteq throughout
      /\ during \subseteq during'
      /\ size \in 0..MaxServInGroup - 1
  BY DEF AddGrow, Watch, NoChange, GroupInv, ListOK
<1>2. \A i \in 1..size + 1 : i \in 1..size \/ i = size + 1
  BY <1>1
<1>3. ListOK'
  BY <1>1, <1>2 DEF GroupInv, ListOK, Distinct
<1>4. LookOK' /\ NoStranger'
  BY <1>1 DEF GroupInv, LookOK, NoStranger
<1>5. Seen'
  BY <1>1, <1>2 DEF GroupInv, Seen
<1>6. Ahead'
  <2>1. look.reading => changes # 0
    BY <1>1 DEF GroupInv, Ahead
  <2> QED BY <1>1, <2>1 DEF GroupInv, Ahead
<1> QED BY <1>3, <1>4, <1>5, <1>6 DEF GroupInv

\* The last server is stored in the place of the one that is removed.
LEMMA RemoveStoreKeeps == ASSUME GroupInv, NEW s \in Serv, RemoveStore(s) PROVE GroupInv'
<1> USE GroupAssumption
<1>1. PICK k \in 1..size : place[k] = s /\ place' = [place EXCEPT ![k] = place[size]]
  BY DEF RemoveStore
<1>2. /\ change.op = "none" /\ change'.op = "remove" /\ size' = size
      /\ look' = look /\ size \in 1..MaxServInGroup
      /\ \A i \in 1..MaxServInGroup : place'[i] = IF i = k THEN place[size] ELSE place[i]
      /\ place' \in [1..MaxServInGroup -> Serv \cup {Null}]
  BY <1>1 DEF RemoveStore, Watch, GroupInv, ListOK
<1>3. Distinct(size) /\ \A i \in 1..size : place[i] \in Serv
  BY <1>2 DEF GroupInv, ListOK
<1>4. ListOK'
  <2>1. Distinct(size - 1)'
    BY <1>1, <1>2, <1>3 DEF Distinct
  <2> QED BY <1>1, <1>2, <1>3, <2>1 DEF ListOK
<1>5. during \subseteq during'
  BY DEF RemoveStore, Watch
<1>6. LookOK' /\ Seen'
  BY <1>1, <1>2, <1>5 DEF RemoveStore, Watch, GroupInv, LookOK, Seen
<1>7. NoStranger'
  <2> SUFFICES ASSUME look.reading, NEW i \in look.next..look.cnt
               PROVE  place'[i] \in during'
    BY <1>2 DEF NoStranger
  <2>1. i \in 1..MaxServInGroup /\ place[i] \in during /\ place[size] \in during
    BY <1>2 DEF GroupInv, LookOK, NoStranger, Seen
  <2> QED BY <1>2, <1>5, <2>1
<1>8. Ahead'
  <2>1. look.reading => changes' = IF changes < 2 THEN changes + 1 ELSE changes
    BY <1>2 DEF RemoveStore, Watch
  <2>2. SUFFICES ASSUME look.reading, changes' <= 1, look.found = Null,
                        NEW m \in throughout' \cap Master
                 PROVE  \E i \in look.next..look.cnt : place'[i] = m
    BY <1>2, <2>1 DEF Ahead, GroupInv, LookOK
  <2>3. m \in throughout /\ m \in Members(place', size)
    BY <1>2, <2>2 DEF RemoveStore, Watch
  <2>31. changes = 0 /\ size = look.cnt
    BY <2>1, <2>2 DEF GroupInv, LookOK, Ahead
  <2>4. PICK i \in look.next..look.cnt : place[i] = m
    BY <2>2, <2>3, <2>31 DEF GroupInv, Ahead
  <2>5. i \in 1..size
    BY <2>2, <2>31, <2>4 DEF GroupInv, LookOK
  <2>6. CASE i # k
    BY <1>2, <2>4, <2>5, <2>6
  <2>7. CASE i = k
    <3>1. PICK j \in 1..size : place'[j] = m
      BY <2>3 DEF Members
    <3>2. j = k
      BY <1>2, <1>3, <2>4, <2>5, <2>7, <3>1 DEF Distinct
    <3> QED BY <2>4, <2>7, <3>1, <3>2
  <2> QED BY <2>6, <2>7
<1> QED BY <1>4, <1>6, <1>7, <1>8 DEF GroupInv

\* The list shrinks.
LEMMA RemoveShrinkKeeps == ASSUME GroupInv, RemoveShrink PROVE GroupInv'
<1> USE GroupAssumption
<1>1. /\ change.op = "remove" /\ change'.op = "none" /\ size' = size - 1 /\ place' = place
      /\ look' = look /\ changes' = changes /\ throughout' \subseteq throughout
      /\ during \subseteq during'
      /\ size \in 1..MaxServInGroup
  BY DEF RemoveShrink, Watch, NoChange, GroupInv, ListOK
<1>2. ListOK'
  BY <1>1 DEF GroupInv, ListOK, Distinct
<1>3. LookOK' /\ NoStranger' /\ Seen'
  BY <1>1 DEF GroupInv, LookOK, NoStranger, Seen
<1>4. Ahead'
  <2>1. look.reading => changes # 0
    BY <1>1 DEF GroupInv, Ahead
  <2> QED BY <1>1, <2>1 DEF GroupInv, Ahead
<1> QED BY <1>2, <1>3, <1>4 DEF GroupInv

\* The reader starts, with the length of the moment.
LEMMA LookStartKeeps == ASSUME GroupInv, LookStart PROVE GroupInv'
<1> USE GroupAssumption
<1>1. /\ look'.reading /\ look'.cnt = size /\ look'.next = 1 /\ look'.found = Null
      /\ place' = place /\ size' = size /\ change' = change
      /\ size \in 0..MaxServInGroup
  BY DEF LookStart, GroupInv, ListOK
<1>2. \A i \in 1..size : place[i] \in Members(place, size)
  BY DEF Members, GroupInv, ListOK
<1>3. ListOK' /\ LookOK'
  BY <1>1 DEF LookStart, GroupInv, ListOK, LookOK, Distinct
<1>4. Seen' /\ NoStranger'
  BY <1>1, <1>2 DEF LookStart, Seen, NoStranger
<1>5. Ahead'
  <2>1. \A m \in Members(place, size) : \E i \in 1..size : place[i] = m
    BY DEF Members
  <2> QED BY <1>1, <2>1 DEF LookStart, Ahead
<1> QED BY <1>3, <1>4, <1>5 DEF GroupInv

\* It reads one place; only a master ends its search.
LEMMA LookNextKeeps == ASSUME GroupInv, LookNext PROVE GroupInv'
<1> USE GroupAssumption
<1>1. /\ look.reading /\ look.next <= look.cnt /\ look.found = Null
      /\ look' = [look EXCEPT !.next = look.next + 1,
                              !.found = IF place[look.next] \in Master
                                        THEN place[look.next] ELSE Null]
      /\ UNCHANGED <<place, size, change, during, throughout, changes>>
  BY DEF LookNext, Looking
<1>2. look.next \in 1..MaxServInGroup /\ look.cnt \in 0..MaxServInGroup
  BY <1>1 DEF GroupInv, LookOK
<1>3. place[look.next] \in Serv \cup {Null}
  BY <1>2 DEF GroupInv, ListOK
<1>4. /\ look'.reading /\ look'.cnt = look.cnt /\ look'.next = look.next + 1
      /\ look'.found = IF place[look.next] \in Master THEN place[look.next] ELSE Null
  BY <1>1 DEF GroupInv, LookOK
<1>5. LookOK'
  <2>1. (IF place[look.next] \in Master THEN place[look.next] ELSE Null) \in Serv \cup {Null}
    BY <1>3
  <2>2. look.next + 1 \in 1..MaxServInGroup + 1
    BY <1>2
  <2> QED BY <1>1, <2>1, <2>2 DEF GroupInv, LookOK
<1>6. ListOK' /\ Seen'
  BY <1>1, <1>4 DEF GroupInv, ListOK, Seen, Distinct
<1>7. NoStranger'
  BY <1>1, <1>2, <1>4 DEF GroupInv, NoStranger
<1>8. Ahead'
  <2> SUFFICES ASSUME changes <= 1, look'.found = Null, NEW m \in throughout \cap Master
               PROVE  \E i \in look.next + 1..look.cnt : place[i] = m
    BY <1>1, <1>4 DEF Ahead, GroupInv
  <2>1. PICK i \in look.next..look.cnt : place[i] = m
    BY <1>1 DEF GroupInv, Ahead
  <2>2. place[look.next] \notin Master
    BY <1>3, <1>4
  <2>3. i # look.next
    BY <2>1, <2>2
  <2> QED BY <1>2, <2>1, <2>3
<1> QED BY <1>5, <1>6, <1>7, <1>8 DEF GroupInv

\* The reader ends.
LEMMA LookEndKeeps == ASSUME GroupInv, LookEnd PROVE GroupInv'
<1> USE GroupAssumption
<1>1. look' = NoLook /\ UNCHANGED <<place, size, change, during, throughout, changes>>
  BY DEF LookEnd
<1>2. ListOK' /\ LookOK'
  BY <1>1 DEF NoLook, GroupInv, ListOK, LookOK, Distinct
<1>3. Seen' /\ NoStranger' /\ Ahead'
  BY <1>1 DEF NoLook, Seen, NoStranger, Ahead
<1> QED BY <1>2, <1>3 DEF GroupInv

\* So the invariant is inductive.
LEMMA NextKeeps == ASSUME GroupInv, [GroupNext]_groupVars PROVE GroupInv'
<1>1. CASE UNCHANGED groupVars
  BY <1>1 DEF groupVars, GroupInv, ListOK, LookOK, Seen, NoStranger, Ahead, Distinct
<1> QED
  BY <1>1, AddStoreKeeps, AddGrowKeeps, RemoveStoreKeeps, RemoveShrinkKeeps, LookStartKeeps,
     LookNextKeeps, LookEndKeeps
  DEF GroupNext

-----------------------------------------------------------------------------
\* A reader without a lock never gets a server that was not in the group while it
\* looked (ServerGroup::add, remove, getMaster, getServer).
THEOREM NoStrangerAlways == GroupSpec => []NoStranger
<1>1. GroupInv /\ [GroupNext]_groupVars => GroupInv'
  BY NextKeeps
<1>2. GroupInv => NoStranger
  BY DEF GroupInv
<1> QED BY InitInv, <1>1, <1>2, PTL DEF GroupSpec

\* It finds a master if one stays in the group, and the list is changed once at most
\* while it looks.
THEOREM FindsMasterAlways == GroupSpec => []FindsMaster
<1>1. GroupInv /\ [GroupNext]_groupVars => GroupInv'
  BY NextKeeps
<1>2. GroupInv => FindsMaster
  <2> SUFFICES ASSUME GroupInv, look.reading, ~Looking, changes <= 1, look.found = Null,
                      NEW m \in throughout \cap Master
               PROVE  FALSE
    BY DEF FindsMaster
  <2>1. \E i \in look.next..look.cnt : place[i] = m
    BY DEF GroupInv, Ahead
  <2>2. look.next > look.cnt /\ look.next \in Int /\ look.cnt \in Int
    BY DEF Looking, GroupInv, LookOK
  <2> QED BY <2>1, <2>2
<1> QED BY InitInv, <1>1, <1>2, PTL DEF GroupSpec
=============================================================================
