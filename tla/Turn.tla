-------------------------------- MODULE Turn --------------------------------
(***************************************************************************)
(* A turn that the handlers race for: to try a failed server again         *)
(* (Server::activate) or to refresh the pool (ServerPool::refresh).  Each  *)
(* handler reads the time stamp, then the clock, and if the period is over *)
(* it swaps the stamp it has read for a new one; it has the turn when the  *)
(* swap succeeds.  Between its two steps others may have their turn.       *)
(*                                                                         *)
(* Time is reduced to whether the period is over (due), and the stamp to   *)
(* whether it is still the one a handler has read.                         *)
(***************************************************************************)
EXTENDS Integers

CONSTANT Handler

Turns == [due : BOOLEAN,
          seen : [Handler -> {"nothing", "current", "old"}],
          won : Nat]

\* The stamp is in the past from the start.
NewTurn == [due |-> TRUE, seen |-> [h \in Handler |-> "nothing"], won |-> 0]

\* h reads the stamp, and finds the period over.
Reads(t, h) == [t EXCEPT !.seen[h] = "current"]

CanRead(t, h) == t.due /\ t.seen[h] = "nothing"

\* A stamp that is stored without the comparison, and whether the swap succeeds.
WinsAlways(t, h) == t.seen[h] # "nothing"
Wins(t, h) == t.seen[h] = "current"

\* The stamp after h has swapped it; won counts the turns of this period.
Swapped(t, h) ==
    [due |-> FALSE,
     seen |-> [g \in Handler |->
                 IF g = h THEN "nothing"
                 ELSE IF t.seen[g] = "current" THEN "old" ELSE t.seen[g]],
     won |-> t.won + 1]

Loses(t, h) == [t EXCEPT !.seen[h] = "nothing"]

\* The period is over.
Due(t) == [t EXCEPT !.due = TRUE, !.won = 0]
=============================================================================
