----------------------------- MODULE ServerList -----------------------------
(* ServerGroup::add and remove on the list of a group, each as one step (the *)
(* steps in between, and the readers that see them, are in ServerGroup).     *)
EXTENDS SequencesExt

CONSTANT MaxServInGroup     \* what the list has room for

\* A server is added once, and not to a full list.
Added(list, s) ==
    IF Contains(list, s) \/ Len(list) = MaxServInGroup THEN list ELSE Append(list, s)

\* The last server takes the place of the one that is removed.
Removed(list, s) ==
    IF ~Contains(list, s) THEN list
    ELSE LET i == SelectInSeq(list, LAMBDA t : t = s)
         IN Front([list EXCEPT ![i] = Last(list)])
=============================================================================
