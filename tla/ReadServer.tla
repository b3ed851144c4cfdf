----------------------------- MODULE ReadServer -----------------------------
(***************************************************************************)
(* The server of a group that a request which only reads goes to           *)
(* (ServerGroup::getReadServer): by the read priorities of the pool, or    *)
(* first by those of the data centre that the proxy is in, where the data  *)
(* centre of a server is that of the longest prefix of its address.  What  *)
(* is drawn by lot is any number.                                          *)
(***************************************************************************)
EXTENDS Integers, SequencesExt

CONSTANTS
    RolePriority,   \* of the roles "master", "static" and "dynamic" (slaves), and "unknown"
    DCOfPrefix,     \* the data centre of each configured prefix, a sequence of numbers
    DCPriority, DCWeight,   \* as the local data centre reads from each
    NoDC, NoServer,
    Unread,     \* nothing has been read yet
    MaxDraw     \* bound of what is drawn

VARIABLES
    servs,      \* mServs: online, fail, role, addr and pend (getPendRequests)
    located,    \* whether data centres are configured
    chosen      \* the server, by its place in servs

readVars == <<servs, located, chosen>>
-----------------------------------------------------------------------------
(* DataCenter::getDC(): the greatest prefix that is not above the address  *)
(* is tried, and then the greatest that is not above what they have in     *)
(* common.                                                                 *)
NotAbove(s, t) ==
    \/ IsPrefix(s, t)
    \/ \E i \in DOMAIN s \cap DOMAIN t :
          s[i] < t[i] /\ SubSeq(s, 1, i - 1) = SubSeq(t, 1, i - 1)

CommonPrefix(s, t) ==
    LET n == Max({k \in 0..Min({Len(s), Len(t)}) : SubSeq(s, 1, k) = SubSeq(t, 1, k)})
    IN SubSeq(s, 1, n)

RECURSIVE DCOf(_)

DCOfGreatest(addr) ==
    LET below == {p \in DOMAIN DCOfPrefix : NotAbove(p, addr)}
        greatest == CHOOSE p \in below : \A q \in below : NotAbove(q, p)
    IN IF below = {} \/ ~IsPrefix(greatest, addr) THEN NoDC ELSE DCOfPrefix[greatest]

DCOf(addr) ==
    LET below == {p \in DOMAIN DCOfPrefix : NotAbove(p, addr)}
        greatest == CHOOSE p \in below : \A q \in below : NotAbove(q, p)
    IN IF below = {} THEN NoDC
       ELSE IF IsPrefix(greatest, addr) THEN DCOfPrefix[greatest]
       ELSE DCOf(CommonPrefix(addr, greatest))
-----------------------------------------------------------------------------
\* The loops keep what they have found: the best priority, the least load of it,
\* and those that have both.
Nothing == [prior |-> 0, load |-> 0, kept |-> <<>>]

KeptByPriority(best, x, prior, load) ==
    IF prior > best.prior THEN [prior |-> prior, load |-> load, kept |-> <<x>>]
    ELSE IF prior = best.prior
    THEN [best EXCEPT !.kept = Append(@, x)] ELSE best

Kept(best, x, prior, load) ==
    IF prior > best.prior \/ (prior = best.prior /\ load < best.load)
    THEN [prior |-> prior, load |-> load, kept |-> <<x>>]
    ELSE IF prior = best.prior /\ load = best.load
    THEN [best EXCEPT !.kept = Append(@, x)] ELSE best

Priority(i) == RolePriority[servs[i].role]

\* The servers that may be read from.
Readable ==
    SelectSeq([i \in DOMAIN servs |-> i],
       LAMBDA i : /\ servs[i].online /\ Priority(i) > 0
                  /\ ~located \/ LET dc == DCOf(servs[i].addr)
                                 IN dc # NoDC /\ DCPriority[dc] > 0)

Failed(indices, failed) == SelectSeq(indices, LAMBDA i : servs[i].fail = failed)

\* The best that have not failed, or the first ones of those that have.
Candidates(indices) ==
    LET alive == FoldLeft(LAMBDA best, i : Kept(best, i, Priority(i), servs[i].pend),
                          Nothing, Failed(indices, FALSE))
        dead == FoldLeft(LAMBDA best, i : Kept(best, i, Priority(i), 0),
                         Nothing, Failed(indices, TRUE))
    IN IF alive.kept # <<>> THEN alive.kept ELSE dead.kept

\* The best data centres, each once.
DCs ==
    LET dcs(failed) ==
           FoldLeft(LAMBDA best, i : LET dc == DCOf(servs[i].addr)
                                     IN Kept(best, dc, DCPriority[dc], 0),
                    Nothing, Failed(Readable, failed)).kept
        unique(s) == FoldLeft(LAMBDA u, dc : IF Contains(u, dc) THEN u ELSE Append(u, dc),
                              <<>>, s)
    IN unique(IF dcs(FALSE) # <<>> THEN dcs(FALSE) ELSE dcs(TRUE))

\* One of several by its weight: the first of them whose cumulated weight is not
\* below the draw.
Weighed(dcs, draw) ==
    LET weighing == SelectSeq(dcs, LAMBDA dc : DCWeight[dc] > 0)
        bound(k) == FoldLeft(LAMBDA w, dc : w + DCWeight[dc], 0, SubSeq(weighing, 1, k))
    IN IF weighing = <<>> THEN NoDC
       ELSE weighing[Min({k \in DOMAIN weighing : bound(k) >= draw % bound(Len(weighing))})]

OneOf(indices, draw) ==
    IF indices = <<>> THEN NoServer ELSE indices[(draw % Len(indices)) + 1]

Read(first, second) ==
    /\ chosen' = IF ~located THEN OneOf(Candidates(Readable), second)
                 ELSE LET dc == Weighed(DCs, first)
                      IN OneOf(Candidates(SelectSeq(Readable,
                                  LAMBDA i : dc # NoDC /\ DCOf(servs[i].addr) = dc)), second)
    /\ UNCHANGED <<servs, located>>

ReadNext == \E first, second \in 0..MaxDraw : Read(first, second)
-----------------------------------------------------------------------------
\* The data centre of an address is that of the longest prefix it has.
LongestPrefix(addr) ==
    LET prefixes == {p \in DOMAIN DCOfPrefix : IsPrefix(p, addr)}
    IN IF prefixes = {} THEN NoDC
       ELSE DCOfPrefix[CHOOSE p \in prefixes : \A q \in prefixes : Len(q) <= Len(p)]

\* A read goes to a server that may be read from.  It goes to one that has failed
\* only if there is no other, to a data centre only if none of those that have a
\* living server has a higher priority, and there to a server of the highest
\* priority and, of these, one with the fewest pending requests.  It goes nowhere
\* only if there is no such server.
ReadsBest ==
    LET may == {i \in DOMAIN servs :
                  /\ servs[i].online /\ RolePriority[servs[i].role] > 0
                  /\ located => /\ LongestPrefix(servs[i].addr) # NoDC
                                /\ DCPriority[LongestPrefix(servs[i].addr)] > 0}
        alive(set) == {i \in set : ~servs[i].fail}
        usable(set) == IF alive(set) # {} THEN alive(set) ELSE set
        centre(i) == LongestPrefix(servs[i].addr)
        near == IF ~located THEN may
                ELSE {i \in may : /\ DCWeight[centre(i)] > 0
                                  /\ \A j \in usable(may) :
                                        DCPriority[centre(j)] <= DCPriority[centre(i)]
                                  /\ \E j \in usable(may) : centre(j) = centre(i)}
        same == usable(IF located THEN {i \in near : centre(i) = centre(chosen)} ELSE near)
        highest == {i \in same : \A j \in same :
                       RolePriority[servs[j].role] <= RolePriority[servs[i].role]}
    IN /\ chosen = NoServer => near = {}
       /\ chosen \in DOMAIN servs =>
             /\ chosen \in highest
             /\ servs[chosen].fail \/ \A i \in alive(highest) : servs[chosen].pend <= servs[i].pend
=============================================================================
