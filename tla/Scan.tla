-------------------------------- MODULE Scan --------------------------------
(***************************************************************************)
(* SCAN over all the groups of a pool, one after the other.  The cursor    *)
(* that a client holds has the number of the group in its low bits and the *)
(* cursor of that group's master above them.                               *)
(*                                                                         *)
(* What a master does with a cursor is external: it has its elements on    *)
(* pages, and answers with the cursor of the next page, or 0.              *)
(***************************************************************************)
EXTENDS Integers, SequencesExt

CONSTANT ServGroupBits

VARIABLES
    pages,      \* of each group, in order: the cursors of its pages, the first 0
    hasMaster,  \* the groups with a master
    cursor,     \* what the client holds
    asked,      \* the group and its cursor that are asked, or no group
    seen,       \* the pages that the client has received: <<group, number>>
    ended

scanVars == <<pages, hasMaster, cursor, asked, seen, ended>>

Width == 2^ServGroupBits

ASSUME ScanAssumption == Width \in Nat \ {0}

ScanGroups == DOMAIN pages
Nobody == [group |-> -1, cursor |-> 0]

ScanInit(ps, masters) ==
    /\ pages = ps /\ hasMaster = masters
    /\ cursor = 0 /\ asked = Nobody
    /\ seen = {} /\ ended = FALSE

\* preHandleRequest(): the group of the cursor, or the next that has a master,
\* is asked with the rest of the cursor (adjustScanCursor), and if there is none
\* the scan ends.
AskMaster ==
    /\ ~ended /\ asked = Nobody
    /\ cursor % Width \in ScanGroups
    /\ LET able == {g \in hasMaster : g >= cursor % Width}
       IN IF able # {}
          THEN /\ asked' = [group |-> Min(able), cursor |-> cursor \div Width]
               /\ UNCHANGED <<cursor, ended>>
          ELSE /\ ended' = TRUE /\ cursor' = 0
               /\ UNCHANGED asked
    /\ UNCHANGED <<pages, hasMaster, seen>>

\* The connection is lost: the client gets an error, and may ask again.
ScanFails ==
    /\ asked # Nobody
    /\ asked' = Nobody
    /\ UNCHANGED <<pages, hasMaster, cursor, seen, ended>>

\* handleResponse(): behind the last page of a group comes the next group.
NextCursorEnding(group, next) == IF next = 0 THEN 0 ELSE next * Width + group

NextCursor(group, next) ==
    IF next # 0 THEN next * Width + group
    ELSE IF group + 1 \in ScanGroups THEN group + 1 ELSE 0

MasterAnswers ==
    /\ asked # Nobody
    /\ LET g == asked.group
           k == SelectInSeq(pages[g], LAMBDA c : c = asked.cursor)
           next == IF k \in 1..Len(pages[g]) - 1 THEN pages[g][k + 1] ELSE 0
       IN /\ seen' = seen \cup {<<g, k>>}
          /\ cursor' = NextCursor(g, next)
          /\ ended' = (NextCursor(g, next) = 0)
    /\ asked' = Nobody
    /\ UNCHANGED <<pages, hasMaster>>

ScanNext == AskMaster \/ ScanFails \/ MasterAnswers
-----------------------------------------------------------------------------
\* "Supports scan command, even multi redis instances": a scan that ends has seen
\* every page of every group with a master, and it was always a page's own cursor
\* that a master was asked for.
ScanComplete ==
    /\ asked # Nobody => Contains(pages[asked.group], asked.cursor)
    /\ ended => seen = UNION {{<<g, k>> : k \in DOMAIN pages[g]} : g \in hasMaster}
=============================================================================
