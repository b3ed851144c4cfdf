---------------------------- MODULE ServerHealth ----------------------------
(***************************************************************************)
(* One server and the handlers that use it.  Each has its own shared       *)
(* connection to it; whether the server has failed, how often, and when it *)
(* may be tried again is shared by all.  A handler whose shared connection *)
(* is closed opens it again when it has the turn, and the answer to the    *)
(* PING that is sent on every new connection revives the server.           *)
(*                                                                         *)
(* The shared connection is that of database 0, the only one check() tries.*)
(***************************************************************************)
EXTENDS Turn

CONSTANT ServerFailureLimit

ASSUME HealthAssumption == ServerFailureLimit \in Nat \ {0}

VARIABLES
    retry,      \* mNextActivateTime
    fail,       \* mFail
    failures,   \* mFailureCnt, modulo the limit
    share,      \* mShareConns[0] of each handler
    up          \* whether the server can be reached

healthVars == <<retry, fail, failures, share, up>>

HealthTypeOK ==
    /\ retry \in Turns
    /\ fail \in BOOLEAN /\ up \in BOOLEAN
    /\ failures \in 0..ServerFailureLimit - 1
    /\ share \in [Handler -> {"none", "closed", "opening", "open"}]

HealthInit ==
    /\ retry = NewTurn
    /\ fail = FALSE
    /\ failures = 0
    /\ share = [h \in Handler |-> "none"]
    /\ up = TRUE

\* The connection is opened and PING is sent on it, or that fails at once.
Opens(h) == \E st \in {"opening"} \cup (IF up THEN {} ELSE {"closed"}) :
               share' = [share EXCEPT ![h] = st]

\* getShareConnection for a request: one that was closed is not opened again while
\* the server has failed, but one that was never made is.
GetShareConnection(h) ==
    /\ share[h] = "none" \/ (share[h] = "closed" /\ ~fail)
    /\ Opens(h)
    /\ UNCHANGED <<retry, fail, failures, up>>

IncrFail ==
    /\ failures' = (failures + 1) % ServerFailureLimit
    /\ fail' = (fail \/ failures' = 0)

\* A connection ends or fails, the shared one or a private one.
Broken(h) ==
    /\ ~up
    /\ \/ /\ share[h] \in {"opening", "open"}
          /\ share' = [share EXCEPT ![h] = "closed"]
       \/ UNCHANGED share
    /\ IncrFail
    /\ UNCHANGED <<retry, up>>

\* A request has waited too long; that is no failure of the server.
ServerTimeout(h) ==
    /\ ~up /\ share[h] \in {"opening", "open"}
    /\ share' = [share EXCEPT ![h] = "closed"]
    /\ UNCHANGED <<retry, fail, failures, up>>

Pong(h) ==
    /\ up /\ share[h] = "opening"
    /\ share' = [share EXCEPT ![h] = "open"]
    /\ fail' = FALSE
    /\ UNCHANGED <<retry, failures, up>>

\* check(): the first half of activate() ...
CheckTurn(h) ==
    /\ fail /\ CanRead(retry, h)
    /\ retry' = Reads(retry, h)
    /\ UNCHANGED <<fail, failures, share, up>>

\* activate() without the opening: it leaves the connection closed.
CheckOnly(h) ==
    /\ retry.seen[h] # "nothing"
    /\ retry' = IF Wins(retry, h) THEN Swapped(retry, h) ELSE Loses(retry, h)
    /\ UNCHANGED <<fail, failures, share, up>>

\* ... and its second half.  The turn is lost on a handler whose connection is
\* open or was never made.
Check(h) ==
    /\ retry.seen[h] # "nothing"
    /\ IF Wins(retry, h)
       THEN /\ retry' = Swapped(retry, h)
            /\ IF share[h] = "closed" THEN Opens(h) ELSE UNCHANGED share
       ELSE /\ retry' = Loses(retry, h)
            /\ UNCHANGED share
    /\ UNCHANGED <<fail, failures, up>>

RetryDue ==
    /\ ~retry.due
    /\ retry' = Due(retry)
    /\ UNCHANGED <<fail, failures, share, up>>

ServerGoesOrReturns ==
    /\ up' = ~up
    /\ UNCHANGED <<retry, fail, failures, share>>

HealthNext ==
    \/ \E h \in Handler :
          \/ GetShareConnection(h) \/ Broken(h) \/ ServerTimeout(h)
          \/ Pong(h) \/ CheckTurn(h) \/ Check(h)
    \/ RetryDue \/ ServerGoesOrReturns

\* Every handler checks its connections after each wait of at most 100 ms, the
\* clock goes on, and a server that can be reached answers.
HealthFairness ==
    /\ WF_healthVars(RetryDue)
    /\ \A h \in Handler :
          /\ WF_healthVars(CheckTurn(h) \/ Check(h))
          /\ WF_healthVars(Pong(h))

HealthSpec == HealthInit /\ [][HealthNext]_healthVars /\ HealthFairness

-----------------------------------------------------------------------------
\* In each retry period at most one handler tries the failed server, whatever
\* the others have read before (Server::activate).
TriedOnce == retry.won <= 1

\* When the server can be reached again for good, a failed server whose shared
\* connections are closed is revived.  (An open or a missing connection, which
\* Check passes over, may leave it failed for ever.)
Revived ==
    <>[]up => (fail /\ (\A h \in Handler : share[h] = "closed") ~> ~fail)
=============================================================================
