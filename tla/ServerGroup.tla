---------------------------- MODULE ServerGroup ----------------------------
(***************************************************************************)
(* The list of the servers of a group, changed by the handler that         *)
(* refreshes the pool and read by all others without a lock: "other thread *)
(* may read ServerGroup when add or remoev, but we don't use lock".        *)
(*                                                                         *)
(* mServs is a vector that never outgrows what it has reserved, so that a  *)
(* reader always reads the same storage: place is that storage, size the   *)
(* length of the vector, and behind the length stands what was left there. *)
(* An element is stored in one step and the length changed in another.     *)
(* The reader looks for the master, as getMaster() and getServer() do; it  *)
(* reads the length once and then the elements one after the other.        *)
(***************************************************************************)
EXTENDS Integers, FiniteSets, ServerList

CONSTANTS
    Serv,       \* servers, all of them online
    Master,     \* those with the role of a master
    Null

ASSUME GroupAssumption ==
    /\ Master \subseteq Serv
    /\ MaxServInGroup \in Nat \ {0}
    /\ Null \notin Serv

VARIABLES
    place,      \* the storage of mServs
    size,       \* mServs.size()
    change,     \* what the refreshing handler is doing
    look,       \* the reader: the length it has read, the next index, and result
    during,     \* the servers that were in the list since the reader started
    throughout, \* those that have been in it all the time
    changes     \* how many changes began or ended since then

groupVars == <<place, size, change, look, during, throughout, changes>>

NoChange == [op |-> "none"]
NoLook == [reading |-> FALSE, cnt |-> 0, next |-> 1, found |-> Null]

GroupInit ==
    /\ place = [i \in 1..MaxServInGroup |-> Null]
    /\ size = 0
    /\ change = NoChange
    /\ look = NoLook
    /\ during = {} /\ throughout = {}
    /\ changes = 0

Members(p, n) == {p[i] : i \in 1..n} \ {Null}

\* What the reader's view of the list becomes with a step of the other thread.
\* A server is in the group from the moment it is stored.
Watch ==
    /\ during' = during \cup Members(place', size')
                 \cup IF change'.op = "add" THEN {place'[size + 1]} ELSE {}
    /\ throughout' = throughout \cap Members(place', size')
    /\ changes' = IF look.reading /\ changes < 2 /\ change.op = "none"
                  THEN changes + 1 ELSE changes
    /\ UNCHANGED look

-----------------------------------------------------------------------------
\* add() as it would be if it made room first.
AddStoreLate(s) ==
    /\ change.op = "none"
    /\ size < MaxServInGroup /\ s \notin Members(place, size)
    /\ size' = size + 1
    /\ change' = [op |-> "none"]
    /\ UNCHANGED place
    /\ Watch

\* add(): the element, then the length.  A full list and a server that is in
\* the list change nothing.
AddStore(s) ==
    /\ change.op = "none"
    /\ size < MaxServInGroup /\ s \notin Members(place, size)
    /\ place' = [place EXCEPT ![size + 1] = s]
    /\ change' = [op |-> "add"]
    /\ UNCHANGED size
    /\ Watch

AddGrow ==
    /\ change.op = "add"
    /\ size' = size + 1
    /\ change' = NoChange
    /\ UNCHANGED place
    /\ Watch

\* remove() as it would be if it swapped the two.
RemoveSwap(s) ==
    /\ change.op = "none"
    /\ \E i \in 1..size :
          /\ place[i] = s
          /\ place' = [place EXCEPT ![i] = place[size], ![size] = s]
    /\ change' = [op |-> "remove"]
    /\ UNCHANGED size
    /\ Watch

\* remove(): the last element takes the place of s, then the list is shortened.
RemoveStore(s) ==
    /\ change.op = "none"
    /\ \E i \in 1..size :
          /\ place[i] = s
          /\ \A j \in 1..i - 1 : place[j] # s
          /\ place' = [place EXCEPT ![i] = place[size]]
    /\ change' = [op |-> "remove"]
    /\ UNCHANGED size
    /\ Watch

RemoveShrink ==
    /\ change.op = "remove"
    /\ size' = size - 1
    /\ change' = NoChange
    /\ UNCHANGED place
    /\ Watch

-----------------------------------------------------------------------------
\* The reader reads the length.  A change that is half done counts.
LookStart ==
    /\ ~look.reading
    /\ look' = [reading |-> TRUE, cnt |-> size, next |-> 1, found |-> Null]
    /\ during' = Members(place, size)
                 \cup IF change.op = "add" THEN {place[size + 1]} ELSE {}
    /\ throughout' = Members(place, size)
    /\ changes' = IF change.op = "none" THEN 0 ELSE 1
    /\ UNCHANGED <<place, size, change>>

Looking == look.reading /\ look.next <= look.cnt /\ look.found = Null

\* ... and the next element, until it finds a master.
LookNext ==
    /\ Looking
    /\ look' = [look EXCEPT !.next = @ + 1,
                            !.found = IF place[look.next] \in Master
                                      THEN place[look.next] ELSE Null]
    /\ UNCHANGED <<place, size, change, during, throughout, changes>>

LookEnd ==
    /\ look.reading /\ ~Looking
    /\ look' = NoLook
    /\ UNCHANGED <<place, size, change, during, throughout, changes>>

GroupNext ==
    \/ \E s \in Serv : AddStore(s) \/ RemoveStore(s)
    \/ AddGrow \/ RemoveShrink
    \/ LookStart \/ LookNext \/ LookEnd

GroupSpec == GroupInit /\ [][GroupNext]_groupVars

-----------------------------------------------------------------------------
\* A reader never gets a server that was not in the group while it looked: what
\* is left behind the end of the list was there when the reader started.
NoStranger ==
    look.reading =>
       \A i \in look.next..look.cnt : place[i] \in during

\* A master that stays in the group while the reader looks for one is found, or
\* another is, if at most one change is made meanwhile.  (With two, a removal
\* and an addition, the reader may pass the place the master has moved from and
\* read the new server in the place it had.)
FindsMaster ==
    look.reading /\ ~Looking /\ changes <= 1 /\ throughout \cap Master # {} =>
       look.found # Null
=============================================================================
