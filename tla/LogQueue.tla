------------------------------ MODULE LogQueue ------------------------------
(***************************************************************************)
(* The logger: handlers take a free unit, format a message into it and     *)
(* queue it; one thread writes the queued units to the file and frees      *)
(* them.  One mutex protects both lists, and one condition variable serves *)
(* the writing thread (nothing is queued) as well as the handlers that may *)
(* not miss a log (no unit is free); each change wakes one of them,        *)
(* whichever the system picks.                                             *)
(*                                                                         *)
(* What happens under the mutex is one step.  Units are the numbers in the *)
(* order in which they were allocated; the text in them is left out.  The  *)
(* number of missed logs is reduced to whether some are to be reported.    *)
(* The logger always has a file sink: Proxy sets it before start().        *)
(***************************************************************************)
EXTENDS Integers, FiniteSets, Sequences, SequencesExt

CONSTANTS
    Writer,     \* the handlers' threads
    Capacity,   \* maxLogUnitNum
    NoUnit      \* a null LogUnit

ASSUME LogAssumption ==
    /\ Capacity \in Nat \ {0}
    /\ NoUnit \notin Nat

Unit == 1..Capacity

VARIABLES
    logPc,      \* where each handler is in log()
    unit,       \* the unit a handler has taken
    runPc,      \* where the writing thread is in run()
    batch,      \* the local logs of run()
    logs,       \* mLogs
    free,       \* mFree
    unitCnt,    \* mLogUnitCnt
    miss,       \* mMissLogs > 0
    allowMiss,  \* mAllowMissLog
    stopped     \* mStop

logVars == <<logPc, unit, runPc, batch, logs, free, unitCnt, miss, allowMiss,
             stopped>>

LogTypeOK ==
    /\ logPc \in [Writer -> {"idle", "waiting", "woken", "formatting"}]
    /\ unit \in [Writer -> Unit \cup {NoUnit}]
    /\ runPc \in {"check", "waiting", "writing", "exited"}
    /\ batch \in Seq(Unit) /\ logs \in Seq(Unit) /\ free \in Seq(Unit)
    /\ unitCnt \in 0..Capacity
    /\ miss \in BOOLEAN /\ allowMiss \in BOOLEAN /\ stopped \in BOOLEAN

LogInit ==
    /\ logPc = [w \in Writer |-> "idle"]
    /\ unit = [w \in Writer |-> NoUnit]
    /\ runPc = "check"
    /\ batch = <<>> /\ logs = <<>> /\ free = <<>>
    /\ unitCnt = 0
    /\ miss = FALSE /\ allowMiss = TRUE /\ stopped = FALSE

-----------------------------------------------------------------------------
(* notify_one(): some thread that waits is woken, if any does.  next is    *)
(* what logPc becomes by the step itself.                                  *)

NotifyOne(next) ==
    \/ /\ runPc = "waiting"
       /\ runPc' = "check"
       /\ logPc' = next
    \/ \E w \in Writer :
          /\ next[w] = "waiting"
          /\ logPc' = [next EXCEPT ![w] = "woken"]
          /\ UNCHANGED runPc
    \/ /\ runPc # "waiting"
       /\ \A w \in Writer : next[w] # "waiting"
       /\ logPc' = next
       /\ UNCHANGED runPc

\* TakeUnit as it would be if the unit stayed in the list.
TakeUnitKept(w) ==
    /\ free # <<>> \/ unitCnt < Capacity
    /\ unit' = [unit EXCEPT ![w] = IF free = <<>> THEN unitCnt + 1 ELSE Last(free)]
    /\ unitCnt' = IF free = <<>> THEN unitCnt + 1 ELSE unitCnt
    /\ logPc' = [logPc EXCEPT ![w] = "formatting"]
    /\ UNCHANGED <<free, miss>>

\* w takes a free unit, or makes one while there are fewer than Capacity.
TakeUnit(w) ==
    /\ \/ /\ free # <<>>
          /\ unit' = [unit EXCEPT ![w] = Last(free)]
          /\ free' = Front(free)
          /\ UNCHANGED unitCnt
       \/ /\ free = <<>> /\ unitCnt < Capacity
          /\ unit' = [unit EXCEPT ![w] = unitCnt + 1]
          /\ unitCnt' = unitCnt + 1
          /\ UNCHANGED free
    /\ logPc' = [logPc EXCEPT ![w] = "formatting"]
    /\ UNCHANGED miss

NoneLeft == free = <<>> /\ unitCnt = Capacity

\* ++mMissLogs: after a failed try_lock it is done without the mutex, so that
\* it can be lost.
MissLog ==
    /\ miss' \in {miss, TRUE}
    /\ UNCHANGED <<logPc, unit, free, unitCnt>>

\* getLogUnit() when logs may be missed: another thread may have the mutex.
GetLogUnitOrMiss(w) ==
    /\ logPc[w] = "idle" /\ allowMiss
    /\ TakeUnit(w) \/ MissLog
    /\ UNCHANGED <<runPc, batch, logs, allowMiss, stopped>>

\* getLogUnit() when none may be missed.
GetLogUnit(w) ==
    /\ logPc[w] = "idle" /\ ~allowMiss
    /\ \/ TakeUnit(w)
       \/ /\ NoneLeft /\ ~stopped
          /\ logPc' = [logPc EXCEPT ![w] = "waiting"]
          /\ UNCHANGED <<unit, free, unitCnt, miss>>
    /\ UNCHANGED <<runPc, batch, logs, allowMiss, stopped>>

\* A handler returns from the wait: it takes a unit that was freed, waits
\* again, or gives up when the logger has stopped.
WakeUp(w) ==
    /\ logPc[w] = "woken"
    /\ \/ /\ free # <<>>
          /\ TakeUnit(w)
       \/ /\ free = <<>>
          /\ logPc' = [logPc EXCEPT ![w] = IF stopped THEN "idle" ELSE "waiting"]
          /\ UNCHANGED <<unit, free, unitCnt, miss>>
    /\ UNCHANGED <<runPc, batch, logs, allowMiss, stopped>>

\* put() as it would be without its notification.
PutQuietly(w) ==
    /\ logPc[w] = "formatting"
    /\ logs' = Append(logs, unit[w])
    /\ unit' = [unit EXCEPT ![w] = NoUnit]
    /\ logPc' = [logPc EXCEPT ![w] = "idle"]
    /\ UNCHANGED <<runPc, batch, free, unitCnt, miss, allowMiss, stopped>>

\* put(): the unit is queued, and one of those that wait is notified.
Put(w) ==
    /\ logPc[w] = "formatting"
    /\ logs' = Append(logs, unit[w])
    /\ unit' = [unit EXCEPT ![w] = NoUnit]
    /\ NotifyOne([logPc EXCEPT ![w] = "idle"])
    /\ UNCHANGED <<batch, free, unitCnt, miss, allowMiss, stopped>>

-----------------------------------------------------------------------------
(* run() and stop().                                                       *)

\* The writing thread takes the queued logs, or waits for one.
Collect ==
    /\ runPc = "check"
    /\ IF logs = <<>> /\ ~stopped
       THEN /\ runPc' = "waiting"
            /\ UNCHANGED <<batch, logs, miss>>
       ELSE /\ runPc' = "writing"
            /\ batch' = logs
            /\ logs' = <<>>
            /\ miss' = FALSE
    /\ UNCHANGED <<logPc, unit, free, unitCnt, allowMiss, stopped>>

\* It writes the next log and frees its unit.
WriteLog ==
    /\ runPc = "writing" /\ batch # <<>>
    /\ batch' = Tail(batch)
    /\ free' = Append(free, Head(batch))
    /\ NotifyOne(logPc)
    /\ UNCHANGED <<unit, logs, unitCnt, miss, allowMiss, stopped>>

\* run() as it would be if it waited without looking for queued logs first.
EndBatchWaiting ==
    /\ runPc = "writing" /\ batch = <<>>
    /\ runPc' = IF stopped THEN "exited" ELSE "waiting"
    /\ UNCHANGED <<logPc, unit, batch, logs, free, unitCnt, miss, allowMiss,
                   stopped>>

\* The thread leaves its loop, with what was queued meanwhile.
EndBatch ==
    /\ runPc = "writing" /\ batch = <<>>
    /\ runPc' = IF stopped THEN "exited" ELSE "check"
    /\ UNCHANGED <<logPc, unit, batch, logs, free, unitCnt, miss, allowMiss,
                   stopped>>

\* stop() sets mStop before it takes the mutex: a thread that has just found
\* it false is in its wait by the time of the notification, or checks it again.
Stop ==
    /\ ~stopped
    /\ stopped' = TRUE
    /\ NotifyOne(logPc)
    /\ UNCHANGED <<unit, batch, logs, free, unitCnt, miss, allowMiss>>

\* CONFIG SET AllowMissLog
SetAllowMissLog ==
    /\ allowMiss' = ~allowMiss
    /\ UNCHANGED <<logPc, unit, runPc, batch, logs, free, unitCnt, miss, stopped>>

RunStep == Collect \/ WriteLog \/ EndBatch

LogNext ==
    \/ \E w \in Writer :
          GetLogUnitOrMiss(w) \/ GetLogUnit(w) \/ WakeUp(w) \/ Put(w)
    \/ RunStep \/ Stop \/ SetAllowMissLog

\* The writing thread runs, and so does a handler that is woken or has a unit.
LogFairness ==
    /\ WF_logVars(RunStep)
    /\ \A w \in Writer : WF_logVars(WakeUp(w) \/ Put(w))

LogSpec == LogInit /\ [][LogNext]_logVars /\ LogFairness

-----------------------------------------------------------------------------
Units(s) == {s[i] : i \in DOMAIN s}

\* Each unit that was allocated is in one place: free, queued, being written,
\* or in the hands of one handler.  A unit that is in two is formatted by a
\* handler while it is written, and one in none is lost to all.
UnitsConserved ==
    LET held == {w \in Writer : unit[w] # NoUnit}
    IN /\ Len(free) + Len(logs) + Len(batch) + Cardinality(held) = unitCnt
       /\ Units(free) \cup Units(logs) \cup Units(batch)
             \cup {unit[w] : w \in held} = 1..unitCnt

\* Until the logger is stopped, the writing thread does not sleep on queued logs
\* unless a handler waits for a unit (and took the notification), or is about
\* to queue another log.
SinkNotAsleep ==
    runPc = "waiting" /\ logs # <<>> /\ ~stopped =>
       \E w \in Writer : logPc[w] \in {"waiting", "woken", "formatting"}

\* As long as logs may be missed, those that are queued are written.  With
\* AllowMissLog false they need not be: the notification of put() may wake a
\* handler that waits for a unit, and then all of them wait for each other.
LogsWritten == [](allowMiss /\ ~stopped) => (logs # <<>> ~> logs = <<>>)
=============================================================================
